---- MODULE Spec2Model ----
(***************************************************************************)
(* A model of the graph-rewrite passes of the repository:                  *)
(*   - qnn_preprocess_model     (quantization/execution_providers/qnn)     *)
(*   - FusionAttentionClip      (transformers/fusion_attention_clip.py)    *)
(*   - PostProcessCausalLMHead, FissionTransformerBlockPhi                 *)
(*                              (transformers/onnx_model_phi.py)           *)
(*   - rewrite_cpu_provider     (tools/ci_build/rewriter.py)               *)
(* Each program has its own specification (SpecQnn, SpecClip, SpecPhi,     *)
(* SpecRewriter)                                                           *)
(* over the same variables; the variables a program does not use keep the  *)
(* value its Init gives them.                                              *)
(***************************************************************************)
EXTENDS Integers, Sequences, FiniteSets, TLC

VARIABLES
    pc,                       \* position of the running program
    graph,                    \* the model's graph: node, initializer, value_info, output
    graph0,                   \* history: the graph as loaded
    cfg,                      \* history: the description of the input the graph was built from
    \* ---- qnn_preprocess_model locals
    fuse_layernorm,           \* argument
    opset_import,             \* model.opset_import
    modified,                 \* local `modified`
    available_suffix,         \* local `available_suffix`
    idx,                      \* position of the `for node in ...graph.node` loop
    applied,                  \* history: what each pass's apply() returned
    log,                      \* logging.warning calls, in order
    saved,                    \* the models onnx.save_model wrote to model_output
    ret,                      \* the value returned
    \* ---- the fields of a Fusion pass object
    nodes_to_add,             \* self.nodes_to_add: the queued new nodes
    nodes_to_remove,          \* self.nodes_to_remove: the names of the nodes queued for removal
    node_name_to_graph_name,  \* self.node_name_to_graph_name
    prune_graph,              \* self.prune_graph
    num_heads,                \* self.num_heads: the caller's hint
    hidden_size,              \* self.hidden_size: the caller's hint
    num_heads_warning,        \* self.num_heads_warning
    hidden_size_warning,      \* self.hidden_size_warning
    todo,                     \* the anchor nodes apply() has still to hand to fuse
    last,                     \* history: the last call of fuse, its locals and what it found
    \* ---- rewrite_cpu_provider locals
    lines,                    \* the lines read from file_path
    operators,                \* the ops referred to: (op_type, domain, opset) triples
    version_map,              \* version_map: (op_type, domain) -> the declared opsets, in order
    line_offset,              \* local `line_offset`, counted from 1
    file_to_write,            \* the lines written so far, each as it was or commented out
    decided                   \* history: the registrations met and what need_comment said

qnnVars == <<fuse_layernorm, opset_import, modified, available_suffix, idx,
             applied, saved, ret>>

fusionVars == <<nodes_to_add, nodes_to_remove, node_name_to_graph_name, prune_graph,
                num_heads, hidden_size, num_heads_warning, hidden_size_warning,
                todo, last>>

rewriterVars == <<lines, operators, version_map, line_offset, file_to_write, decided>>

vars == <<pc, graph, graph0, cfg, log, qnnVars, fusionVars, rewriterVars>>

\* rewrite_cpu_provider is not running
RewriterIdle ==
    /\ lines = <<>>
    /\ operators = {}
    /\ version_map = <<>>
    /\ line_offset = 0
    /\ file_to_write = <<>>
    /\ decided = <<>>

(***************************************************************************)
(* Bounds of the model.                                                    *)
(***************************************************************************)
MaxQnnNodes == 2

\* the largest head count and head size a graph's shape constants hold
MaxDim == 2

\* the largest number of transformer blocks of a phi graph
MaxBlocks == 2

\* the largest number of lines of a provider file
MaxStatements == 3

(***************************************************************************)
(* Generic helpers.                                                        *)
(***************************************************************************)
Range(s) == {s[i] : i \in 1..Len(s)}

Max(S) == CHOOSE m \in S : \A x \in S : x <= m

(***************************************************************************)
(* Node names of the qnn program are sequences of characters, so that the  *)
(* prefix test, int() and str() are modelled by what they do.              *)
(***************************************************************************)
unnamed_node_prefix ==
    <<"q","n","n","_","p","r","e","p","r","o","c","_","n","o","d","e","_">>

Digits == <<"0","1","2","3","4","5","6","7","8","9">>

DigitValue(c) == (CHOOSE i \in 1..10 : Digits[i] = c) - 1

IsDigit(c) == \E i \in 1..10 : Digits[i] = c

\* str(n) of a natural number: decimal, no leading zeros
RECURSIVE NatToStr(_)
NatToStr(n) ==
    IF n < 10 THEN <<Digits[n + 1]>>
    ELSE NatToStr(n \div 10) \o <<Digits[(n % 10) + 1]>>

\* int(s) where s is a non-empty run of digits
RECURSIVE DigitsToNat(_)
DigitsToNat(s) ==
    IF Len(s) = 0 THEN 0
    ELSE 10 * DigitsToNat(SubSeq(s, 1, Len(s) - 1)) + DigitValue(s[Len(s)])

\* the characters for which str.isspace() holds, among those up to U+00FF:
\* U+0009 to U+000D, U+001C to U+001F, the space, U+0085 and U+00A0
Whitespace ==
    {"\t", "\n", "", "\f", "\r", "", "", "", "", " ", "", " "}

\* s without the characters of `blanks` at its two ends
StripOf(s, blanks) ==
    LET inked == {i \in 1..Len(s) : s[i] \notin blanks}
    IN  IF inked = {} THEN <<>>
        ELSE SubSeq(s, CHOOSE i \in inked : \A j \in inked : i <= j,
                       CHOOSE i \in inked : \A j \in inked : j <= i)

\* str.strip()
StripSpace(s) == StripOf(s, Whitespace)

\* the blanks int() passes over around a number: those of str.isspace()
\* except the separators U+001C to U+001F
IntSpace == Whitespace \ {"", "", "", ""}

\* the digits of a number as int() reads them: single underscores may stand
\* between two digits
IsGrouped(body) ==
    /\ Len(body) > 0
    /\ \A i \in 1..Len(body) : IsDigit(body[i]) \/ body[i] = "_"
    /\ IsDigit(body[1])
    /\ IsDigit(body[Len(body)])
    /\ \A i \in 1..(Len(body) - 1) : ~(body[i] = "_" /\ body[i + 1] = "_")

\* int(s): [ok |-> FALSE] stands for ValueError
ParseInt(s) ==
    LET t      == StripOf(s, IntSpace)
        signed == Len(t) > 0 /\ t[1] \in {"+", "-"}
        body   == IF signed THEN SubSeq(t, 2, Len(t)) ELSE t
    IN  IF ~IsGrouped(body)
        THEN [ok |-> FALSE, v |-> 0]
        ELSE [ok |-> TRUE,
              v  |-> IF signed /\ t[1] = "-" THEN 0 - DigitsToNat(SelectSeq(body, IsDigit))
                     ELSE DigitsToNat(SelectSeq(body, IsDigit))]

StartsWith(name, prefix) ==
    Len(name) >= Len(prefix) /\ SubSeq(name, 1, Len(prefix)) = prefix

\* ONNXModel.get_largest_node_name_suffix: the largest numeric suffix among the
\* node names that begin with the prefix, -1 when there is none
get_largest_node_name_suffix(g, prefix) ==
    LET vals == {ParseInt(SubSeq(n.name, Len(prefix) + 1, Len(n.name))).v :
                   n \in {m \in Range(g.node) :
                            /\ Len(m.name) > 0
                            /\ StartsWith(m.name, prefix)
                            /\ ParseInt(SubSeq(m.name, Len(prefix) + 1, Len(m.name))).ok}}
    IN  Max(vals \cup {-1})

(***************************************************************************)
(* Topological order.                                                      *)
(***************************************************************************)
Producers(nodes, e) == {i \in 1..Len(nodes) : e \in Range(nodes[i].output)}

\* every node appears after all nodes producing its input edges
IsTopological(nodes) ==
    \A i \in 1..Len(nodes) : \A e \in Range(nodes[i].input) :
        \A j \in Producers(nodes, e) : j < i

OutputsOf(nodes) == UNION {Range(nodes[i].output) : i \in 1..Len(nodes)}

\* str.__lt__ on two edge names, which are a letter ("e" for the output of a
\* node, "x" for a graph input) and a digit
NameBefore(a, b) ==
    \/ a[1] = "e" /\ b[1] = "x"
    \/ a[1] = b[1] /\ a[2] < b[2]

\* list.sort() on a list of names
RECURSIVE SortNames(_)
SortNames(names) ==
    IF names = <<>> THEN <<>>
    ELSE LET least == CHOOSE i \in 1..Len(names) :
                         /\ \A j \in 1..Len(names) : ~NameBefore(names[j], names[i])
                         /\ \A j \in 1..(i - 1) : NameBefore(names[i], names[j])
         IN  <<names[least]>> \o SortNames(SubSeq(names, 1, least - 1)
                                            \o SubSeq(names, least + 1, Len(names)))

\* the loop over the sorted names skips a name equal to the one before it
RECURSIVE SkipRepeated(_)
SkipRepeated(names) ==
    IF Len(names) < 2 THEN names
    ELSE IF names[1] = names[2] THEN SkipRepeated(Tail(names))
    ELSE <<names[1]>> \o SkipRepeated(Tail(names))

\* sum(1 for _ in node.input if _): the inputs of a node that are connected
CountInputs(n) == Cardinality({k \in 1..Len(n.input) : n.input[k] # <<>>})

\* deps_to_nodes[e]: the nodes reading the edge, in the order of the graph,
\* once for every input slot that reads it
RECURSIVE deps_to_nodes(_, _, _)
deps_to_nodes(nodes, e, i) ==
    IF i > Len(nodes) \/ e = <<>> THEN <<>>
    ELSE [k \in 1..Cardinality({k \in 1..Len(nodes[i].input) : nodes[i].input[k] = e}) |-> i]
         \o deps_to_nodes(nodes, e, i + 1)

\* the nodes of `users` lose one dependency each; a node whose count comes to
\* zero is appended to the sorted nodes
RECURSIVE Release(_, _)
Release(t, users) ==
    IF users = <<>> THEN t
    ELSE Release([deps_count |-> [t.deps_count EXCEPT ![Head(users)] = @ - 1],
                  sorted_nodes |-> IF t.deps_count[Head(users)] = 1
                                   THEN Append(t.sorted_nodes, Head(users))
                                   ELSE t.sorted_nodes],
                 Tail(users))

\* Release for the readers of each of the edges in turn
RECURSIVE ReleaseAll(_, _, _)
ReleaseAll(nodes, t, edges) ==
    IF edges = <<>> THEN t
    ELSE ReleaseAll(nodes, Release(t, deps_to_nodes(nodes, Head(edges), 1)), Tail(edges))

\* the while loop: the outputs of the sorted nodes, from `start` on, release
\* their readers
RECURSIVE Drain(_, _, _)
Drain(nodes, t, start) ==
    IF start > Len(t.sorted_nodes) THEN t
    ELSE Drain(nodes, ReleaseAll(nodes, t, nodes[t.sorted_nodes[start]].output), start + 1)

\* ONNXModel.topological_sort: first the nodes without inputs, in the order
\* of the graph; then the nodes all of whose inputs are initializers or graph
\* inputs, as the sorted names of these release them; then the nodes the
\* outputs of the sorted ones release.  A node that is never released (a
\* cycle, an edge nobody provides) fails the assertion "Graph is not a DAG"
\* ([ok |-> FALSE]) and the graph stays as it was
topological_sort(g) ==
    LET indices == [i \in 1..Len(g.node) |-> i]
        names == [i \in 1..Len(g.initializer) |-> g.initializer[i].name]
                 \o [i \in 1..Len(g.input) |-> g.input[i].name]
        first == [deps_count |-> [i \in 1..Len(g.node) |-> CountInputs(g.node[i])],
                  sorted_nodes |-> SelectSeq(indices, LAMBDA i : CountInputs(g.node[i]) = 0)]
        fed == ReleaseAll(g.node, first, SkipRepeated(SortNames(names)))
        t == Drain(g.node, fed, 1)
    IN  IF Len(t.sorted_nodes) = Len(g.node)
        THEN [ok |-> TRUE,
              graph |-> [g EXCEPT !.node = [i \in 1..Len(g.node) |-> g.node[t.sorted_nodes[i]]]]]
        ELSE [ok |-> FALSE, graph |-> g]

(***************************************************************************)
(* qnn_preprocess_model: the inputs.                                       *)
(***************************************************************************)
Name(suffix) == unnamed_node_prefix \o suffix

\* node names a loaded model may carry: none, a foreign name, the bare prefix,
\* and the prefix followed by a canonical number, a number with a leading zero,
\* a number whose successor has one more digit, a non-number, and a number
\* with an underscore between its digits
QnnNamePool ==
    { <<>>, <<"a">>, unnamed_node_prefix,
      Name(<<"1">>), Name(<<"0","1">>), Name(<<"9">>), Name(<<"x">>),
      Name(<<"1","_","0">>) }

QnnNodeKinds ==
    ({"Relu"} \X QnnNamePool) \cup ({"Constant"} \X { <<>>, Name(<<"9">>) })

Edge(k) == <<"e", k>>

GraphInput(k) == <<"x", k>>

\* the graph of n nodes of the given kinds; a Constant takes no input.  The
\* nodes are wired as a chain listed in dataflow order ("forward"), as a chain
\* listed against it ("backward"), or each to a graph input of its own
\* ("parallel"), these being declared and read from the highest name down
QnnGraph(kinds, wiring) ==
    LET n == Len(kinds)
        src(k) == CASE wiring = "forward" -> (IF k = 1 THEN GraphInput(0) ELSE Edge(k - 1))
                    [] wiring = "backward" -> (IF k = n THEN GraphInput(0) ELSE Edge(k + 1))
                    [] OTHER -> GraphInput(n - k)
    IN  [node |-> [k \in 1..n |->
                     [id      |-> k,
                      op_type |-> kinds[k][1],
                      name    |-> kinds[k][2],
                      input   |-> IF kinds[k][1] = "Constant" THEN <<>> ELSE <<src(k)>>,
                      output  |-> <<Edge(k)>>]],
         initializer |-> <<>>,
         input |-> IF wiring = "parallel" THEN [k \in 1..n |-> [name |-> GraphInput(n - k)]]
                   ELSE <<[name |-> GraphInput(0)]>>]

QnnGraphs ==
    UNION { { QnnGraph(kinds, wiring) : kinds \in [1..n -> QnnNodeKinds],
                                       wiring \in (IF n = 1 THEN {"forward"}
                                                   ELSE {"forward", "backward", "parallel"}) }
            : n \in 1..MaxQnnNodes }

\* model.opset_import: none for the default domain, one below 17, one at 17,
\* the default domain spelled "ai.onnx", and a default-domain entry that is
\* not the first entry
OpsetImports ==
    { <<[domain |-> "com.microsoft", version |-> 1]>>,
      <<[domain |-> "", version |-> 16]>>,
      <<[domain |-> "", version |-> 17]>>,
      <<[domain |-> "ai.onnx", version |-> 13]>>,
      <<[domain |-> "com.microsoft", version |-> 1], [domain |-> "", version |-> 18]>> }

IsDefaultDomain(x) == x.domain = "" \/ x.domain = "ai.onnx"

\* next(x for x in model.opset_import if x.domain == "" or x.domain == "ai.onnx"):
\* 0 stands for StopIteration
FirstDefaultOpset(imports) ==
    LET hits == {i \in 1..Len(imports) : IsDefaultDomain(imports[i])}
    IN  IF hits = {} THEN 0 ELSE CHOOSE i \in hits : \A j \in hits : i <= j

InitQnn ==
    /\ RewriterIdle
    /\ pc = "gelu"
    /\ graph \in QnnGraphs
    /\ graph0 = graph
    /\ cfg = "qnn"
    /\ fuse_layernorm \in BOOLEAN
    /\ opset_import \in OpsetImports
    /\ modified = FALSE
    /\ available_suffix = 0
    /\ idx = 0
    /\ applied = [gelu |-> "not_run", lpnorm |-> "not_run", layernorm |-> "not_run"]
    /\ log = <<>>
    /\ saved = <<>>
    /\ ret = "none"
    /\ nodes_to_add = <<>>
    /\ nodes_to_remove = <<>>
    /\ node_name_to_graph_name = <<>>
    /\ prune_graph = FALSE
    /\ num_heads = 0
    /\ hidden_size = 0
    /\ num_heads_warning = TRUE
    /\ hidden_size_warning = TRUE
    /\ todo = <<>>
    /\ last = <<>>

(***************************************************************************)
(* qnn_preprocess_model: the steps.                                        *)
(***************************************************************************)
Outcome(r) == IF r THEN "changed" ELSE "unchanged"

\* fusion_gelu.apply(): what the pass returns is its own business
ApplyGelu ==
    /\ UNCHANGED rewriterVars
    /\ UNCHANGED fusionVars
    /\ pc = "gelu"
    /\ \E r \in BOOLEAN :
         /\ modified' = (IF r THEN TRUE ELSE modified)
         /\ applied' = [applied EXCEPT !.gelu = Outcome(r)]
    /\ pc' = "lpnorm"
    /\ UNCHANGED <<graph, graph0, cfg, fuse_layernorm, opset_import,
                   available_suffix, idx, log, saved, ret>>

ApplyLpNorm ==
    /\ UNCHANGED rewriterVars
    /\ UNCHANGED fusionVars
    /\ pc = "lpnorm"
    /\ \E r \in BOOLEAN :
         /\ modified' = (IF r THEN TRUE ELSE modified)
         /\ applied' = [applied EXCEPT !.lpnorm = Outcome(r)]
    /\ pc' = "layernorm"
    /\ UNCHANGED <<graph, graph0, cfg, fuse_layernorm, opset_import,
                   available_suffix, idx, log, saved, ret>>

\* a pass that would also be applied to opset 16
LayerNormFusableFrom16(version) == version >= 16

\* line 36: LayerNormalization needs opset >= 17
LayerNormFusable(version) == version >= 17

\* lines 32-45: the optional LayerNormalization pass
LayerNormStep ==
    /\ UNCHANGED rewriterVars
    /\ UNCHANGED fusionVars
    /\ pc = "layernorm"
    /\ IF ~fuse_layernorm
       THEN /\ pc' = "suffix"
            /\ UNCHANGED <<modified, applied, log>>
       ELSE LET k == FirstDefaultOpset(opset_import)
            IN  IF k = 0
                THEN /\ pc' = "error"            \* StopIteration leaves the function
                     /\ UNCHANGED <<modified, applied, log>>
                ELSE IF ~LayerNormFusable(opset_import[k].version)
                THEN /\ log' = Append(log, "opset_too_low")
                     /\ pc' = "suffix"
                     /\ UNCHANGED <<modified, applied>>
                ELSE /\ \E r \in BOOLEAN :
                          /\ modified' = (IF r THEN TRUE ELSE modified)
                          /\ applied' = [applied EXCEPT !.layernorm = Outcome(r)]
                     /\ pc' = "suffix"
                     /\ UNCHANGED log
    /\ UNCHANGED <<graph, graph0, cfg, fuse_layernorm, opset_import,
                   available_suffix, idx, saved, ret>>

\* line 49
FirstSuffix(g) == get_largest_node_name_suffix(g, unnamed_node_prefix) + 1

StartNaming ==
    /\ UNCHANGED rewriterVars
    /\ UNCHANGED fusionVars
    /\ pc = "suffix"
    /\ available_suffix' = FirstSuffix(graph)
    /\ idx' = 1
    /\ pc' = "naming"
    /\ UNCHANGED <<graph, graph0, cfg, fuse_layernorm, opset_import, modified,
                   applied, log, saved, ret>>

\* line 51
NeedsName(node) == node.op_type # "Constant" /\ node.name = <<>>

\* a loop that forgets to advance the suffix
NextSuffixStuck(s) == s

\* line 53
NextSuffix(s) == s + 1

\* lines 50-56: one iteration of the loop over graph.node
NameNode ==
    /\ UNCHANGED rewriterVars
    /\ UNCHANGED fusionVars
    /\ pc = "naming"
    /\ idx <= Len(graph.node)
    /\ IF NeedsName(graph.node[idx])
       THEN /\ graph' = [graph EXCEPT
                           !.node[idx].name = unnamed_node_prefix \o NatToStr(available_suffix)]
            /\ available_suffix' = NextSuffix(available_suffix)
            /\ modified' = TRUE
            /\ log' = Append(log, "renamed")
       ELSE UNCHANGED <<graph, available_suffix, modified, log>>
    /\ idx' = idx + 1
    /\ UNCHANGED <<pc, graph0, cfg, fuse_layernorm, opset_import, applied, saved, ret>>

\* a save that does not look at the flag
MustSaveAlways(m) == TRUE

\* line 58
MustSave(m) == m

\* lines 58-62
Finish ==
    /\ UNCHANGED rewriterVars
    /\ UNCHANGED fusionVars
    /\ pc = "naming"
    /\ idx > Len(graph.node)
    /\ IF MustSave(modified) /\ ~topological_sort(graph).ok
       THEN /\ pc' = "error"                    \* the cycle error leaves the function
            /\ UNCHANGED <<graph, saved, ret>>
       ELSE /\ IF MustSave(modified)
               THEN /\ graph' = topological_sort(graph).graph
                    /\ saved' = <<graph'>>
               ELSE UNCHANGED <<graph, saved>>
            /\ ret' = modified
            /\ pc' = "done"
    /\ UNCHANGED <<graph0, cfg, fuse_layernorm, opset_import, modified,
                   available_suffix, idx, applied, log>>

NextQnn ==
    \/ ApplyGelu
    \/ ApplyLpNorm
    \/ LayerNormStep
    \/ StartNaming
    \/ NameNode
    \/ Finish

SpecQnn == InitQnn /\ [][NextQnn]_vars

(***************************************************************************)
(* qnn_preprocess_model: the claims.                                       *)
(***************************************************************************)
NodeById(g, id) == CHOOSE n \in Range(g.node) : n.id = id

NamesOf(g) == {n.name : n \in Range(g.node)}

\* the nodes whose name is not the one they were loaded with
Renamed == {n.id : n \in {m \in Range(graph.node) : NodeById(graph0, m.id).name # m.name}}

PassChanged == {p \in {"gelu", "lpnorm", "layernorm"} : applied[p] = "changed"}

NamingOver == (pc = "naming" /\ idx > Len(graph.node)) \/ pc = "done"

\* C1: qnn_preprocess_model returns true iff a pass reported a change or a node
\* was renamed; the graph is re-sorted and written exactly when it returns true
\* (otherwise nothing is written and the node order is left as loaded); a run
\* with no pass change and no node in need of a name returns false.
C1_ReturnsTrueIffEdited ==
    /\ pc # "done" => saved = <<>> /\ ret = "none"
    /\ pc = "done" =>
         /\ ret = (PassChanged # {} \/ Renamed # {})
         /\ ret = TRUE  => saved = <<graph>> /\ IsTopological(graph.node)
         /\ ret = FALSE => saved = <<>> /\ graph = graph0
         /\ (PassChanged = {} /\ \A n \in Range(graph0.node) :
                                   n.op_type = "Constant" \/ n.name # <<>>)
              => ret = FALSE /\ saved = <<>>

\* a returning run whose only edit is a renaming and whose graph had to be re-ordered
C1_Witness ==
    /\ pc = "done" /\ ret = TRUE /\ PassChanged = {}
    /\ ~IsTopological(graph0.node) /\ IsTopological(saved[1].node)

\* C2: every name the naming step assigns is the prefix followed by a number
\* above the largest numeric suffix loaded, differs from every node name that
\* existed before the step and from the name of every other node.
C2_AssignedNamesNeverCollide ==
    \A n \in Range(graph.node) :
        n.id \in Renamed =>
            /\ n.name \notin NamesOf(graph0)
            /\ \A m \in Range(graph.node) : m.id # n.id => m.name # n.name
            /\ StartsWith(n.name, unnamed_node_prefix)
            /\ LET suffix == ParseInt(SubSeq(n.name, Len(unnamed_node_prefix) + 1,
                                             Len(n.name)))
               IN  /\ suffix.ok
                   /\ \A m \in Range(graph0.node) :
                        LET old == ParseInt(SubSeq(m.name, Len(unnamed_node_prefix) + 1,
                                                   Len(m.name)))
                        IN  (StartsWith(m.name, unnamed_node_prefix) /\ old.ok)
                               => old.v < suffix.v

\* a node is renamed to ..._10 beside a loaded node ..._9
C2_Witness ==
    /\ NamingOver
    /\ Name(<<"9">>) \in NamesOf(graph0)
    /\ \E n \in Range(graph.node) : n.id \in Renamed /\ n.name = Name(<<"1", "0">>)

\* C3: after the naming step all nodes of the graph have a name: for any
\* input graph, no node with an empty name remains.
C3_NoEmptyNameRemains ==
    NamingOver => \A n \in Range(graph.node) : n.name # <<>>

\* what line 51 does instead: after the naming step no node other than a
\* Constant has an empty name, and a Constant has the name it was loaded with
C3_NoEmptyNameButConstant ==
    NamingOver =>
        \A n \in Range(graph.node) :
            /\ n.op_type # "Constant" => n.name # <<>>
            /\ n.op_type = "Constant" => n.name = NodeById(graph0, n.id).name

\* a nameless node was named while a nameless Constant beside it stayed
\* nameless
C3_Witness ==
    /\ NamingOver
    /\ Renamed # {}
    /\ \E n \in Range(graph.node) : n.op_type = "Constant" /\ n.name = <<>>

\* fuse_layernorm on a model whose default-domain opset is below 17
LowOpsetCase ==
    /\ fuse_layernorm
    /\ \E i \in 1..Len(opset_import) :
         /\ IsDefaultDomain(opset_import[i])
         /\ opset_import[i].version < 17
         /\ \A j \in 1..(i - 1) : ~IsDefaultDomain(opset_import[j])

\* C4: with fuse_layernorm on an opset below 17 the LayerNormalization pass is
\* not applied, one warning is logged, no error is raised, and the Gelu and
\* LpNormalization passes and the naming step alone decide the returned flag.
C4_LowOpsetSkipsLayerNorm ==
    LowOpsetCase =>
        /\ pc # "error"
        /\ applied.layernorm = "not_run"
        /\ pc \in {"suffix", "naming", "done"} =>
              Cardinality({i \in 1..Len(log) : log[i] = "opset_too_low"}) = 1
        /\ pc \in {"gelu", "lpnorm", "layernorm"} => log = <<>>
        /\ NamingOver => \A n \in Range(graph.node) :
                            n.op_type # "Constant" => n.name # <<>>
        /\ pc = "done" =>
              ret = (applied.gelu = "changed" \/ applied.lpnorm = "changed"
                       \/ Renamed # {})

\* the pass was skipped with its warning and the Gelu pass alone set the flag
C4_Witness ==
    /\ LowOpsetCase /\ pc = "done" /\ ret = TRUE
    /\ applied.gelu = "changed" /\ applied.lpnorm = "unchanged" /\ Renamed = {}
    /\ log = <<"opset_too_low">>

(***************************************************************************)
(* The graph model of the transformers passes (OnnxModel).  A node is a    *)
(* record [name, op_type, input, output, value]; a node is referred to by  *)
(* its position in graph.node, 0 standing for None.  Input slots are       *)
(* numbered from 0 as in the source.  graph.empty is the empty name, the   *)
(* name of an input or output that is not connected.                       *)
(***************************************************************************)
N(name, op_type, input, output) ==
    [name |-> name, op_type |-> op_type, input |-> input, output |-> output,
     value |-> <<>>]

\* a Constant node with its embedded value
ConstantNode(name, output, value) ==
    [name |-> name, op_type |-> "Constant", input |-> <<>>, output |-> <<output>>,
     value |-> value]

NoneNode == 0

NoneIndex == -1

\* the wildcard of a slot sequence (None in the source)
Wild == -1

\* OnnxModel.output_name_to_node: the node producing an edge (empty names are
\* no edge; a later node overwrites an earlier one)
output_name_to_node(g, e) ==
    IF e = g.empty THEN NoneNode
    ELSE LET hits == {i \in 1..Len(g.node) :
                        \E k \in 1..Len(g.node[i].output) : g.node[i].output[k] = e}
         IN  IF hits = {} THEN NoneNode ELSE Max(hits)

\* OnnxModel.get_parent
get_parent(g, n, slot) ==
    IF slot >= Len(g.node[n].input) THEN NoneNode
    ELSE output_name_to_node(g, g.node[n].input[slot + 1])

\* OnnxModel.match_first_parent: the lowest slot whose producer has the kind
match_first_parent(g, n, op_type) ==
    LET parents == [i \in 1..Len(g.node[n].input) |->
                      output_name_to_node(g, g.node[n].input[i])]
        hits == {i \in 1..Len(parents) :
                   parents[i] # NoneNode /\ g.node[parents[i]].op_type = op_type}
    IN  IF hits = {} THEN [node |-> NoneNode, index |-> NoneIndex]
        ELSE LET i == CHOOSE i \in hits : \A j \in hits : i <= j
             IN  [node |-> parents[i], index |-> i - 1]

\* OnnxModel.match_parent(node, expected_kind, input_slot): the producer of
\* the input at the slot if its kind is the expected one, else None; with the
\* wildcard, the first slot that qualifies.  `index` is the slot a wildcard
\* step matched.
match_parent_at(g, n, op_type, slot) ==
    IF slot = Wild THEN match_first_parent(g, n, op_type)
    ELSE LET parent == get_parent(g, n, slot)
         IN  IF parent # NoneNode /\ g.node[parent].op_type = op_type
             THEN [node |-> parent, index |-> NoneIndex]
             ELSE [node |-> NoneNode, index |-> NoneIndex]

match_parent(g, n, op_type, slot) == match_parent_at(g, n, op_type, slot).node

\* OnnxModel.match_parent_path(node, kind_sequence, slot_sequence): the chain
\* of parents, or no match as a whole; `indices` is the caller's return_indice
\* list: every wildcard step appends the slot it found (None when it found
\* none), and what was appended before a failing step stays in the list
RECURSIVE match_parent_path_from(_, _, _, _, _)
match_parent_path_from(g, n, op_types, slots, acc) ==
    IF op_types = <<>> THEN acc
    ELSE LET m == match_parent_at(g, n, Head(op_types), Head(slots))
             indices == IF Head(slots) = Wild
                        THEN Append(acc.indices, m.index)
                        ELSE acc.indices
         IN  IF m.node = NoneNode
             THEN [ok |-> FALSE, nodes |-> <<>>, indices |-> indices]
             ELSE match_parent_path_from(g, m.node, Tail(op_types), Tail(slots),
                      [ok |-> TRUE,
                       nodes |-> Append(acc.nodes, m.node),
                       indices |-> indices])

match_parent_path(g, n, op_types, slots) ==
    match_parent_path_from(g, n, op_types, slots,
                           [ok |-> TRUE, nodes |-> <<>>, indices |-> <<>>])

\* OnnxModel.get_children: the nodes consuming an output of the node
get_children(g, n) ==
    {i \in 1..Len(g.node) :
        \E e \in Range(g.node[i].input) : e # g.empty /\ e \in Range(g.node[n].output)}

\* OnnxModel.find_first_child_by_type(node, kind, _, recursive=False)
find_first_child_by_type(g, n, op_type) ==
    LET hits == {i \in get_children(g, n) : g.node[i].op_type = op_type}
    IN  IF hits = {} THEN NoneNode ELSE Max(hits)

\* OnnxModel.get_constant_value: the value of an edge that is an initializer or
\* the output of a Constant node, else unresolved
get_constant_value(g, e) ==
    LET p == output_name_to_node(g, e)
    IN  IF p # NoneNode /\ g.node[p].op_type = "Constant"
        THEN [ok |-> TRUE, v |-> g.node[p].value]
        ELSE IF e \in DOMAIN g.initializer
        THEN [ok |-> TRUE, v |-> g.initializer[e]]
        ELSE [ok |-> FALSE, v |-> <<>>]

\* OnnxModel.get_nodes_by_op_type, in graph order
get_nodes_by_op_type(g, op_types) ==
    SelectSeq([i \in 1..Len(g.node) |-> i], LAMBDA i : g.node[i].op_type \in op_types)

(***************************************************************************)
(* The graphs FusionAttentionClip is run on: one Clip attention layer      *)
(* ending in the SkipLayerNormalization anchor "sln", built from a         *)
(* description c of how it departs from the pattern:                       *)
(*   c.before  what precedes the anchor: a SkipLayerNormalization at slot  *)
(*             1 or 0 or both, an Add with a LayerNormalization child at   *)
(*             slot 0 or 1 or both, an Add without such a child, nothing;  *)
(*             "_ln": the attention output also feeds a LayerNormalization *)
(*   c.defect  the chain that is broken, the MatMul that reads another     *)
(*             edge than the root, or the weight that is no initializer    *)
(*   c.mask    the causal-mask subgraph: with Concat, without, behind a    *)
(*             Reshape, absent                                             *)
(*   c.mask_slot  the slot of the mask Add that carries the mask           *)
(*   c.shape   what produces slot 1 of reshape_q: a Concat of 4 or 3       *)
(*             inputs, or no node                                          *)
(*   c.nh, c.hs  where the constants at Concat inputs 2 and 3 come from    *)
(***************************************************************************)
SlnBefore == {"sln1", "sln0", "slnBoth", "sln1_ln"}

AddBefore == {"add0", "add1", "addBoth", "add1_ln"}

Befores == SlnBefore \cup AddBefore \cup {"addNoLN", "none"}

Defects == {"ok", "qkv", "v", "qk", "q", "k", "rootq", "rootk", "rootv", "noweight"}

Masks == {"concat", "expand", "reshape", "absent"}

Shapes == {"concat4", "concat3", "noconcat"}

\* the edge the Q, K and V MatMul read in a well-formed layer
RootEdge(c) ==
    IF c.before \in SlnBefore THEN "prev_norm"
    ELSE IF c.before \in AddBefore THEN "emb_norm"
    ELSE "in_a"

AnchorInputs(c) ==
    CASE c.before \in {"sln1", "sln1_ln"} -> <<"attn_out", "prev_sum">>
      [] c.before = "sln0"                -> <<"prev_sum", "attn_out">>
      [] c.before = "slnBoth"             -> <<"prev_sum", "prev2_sum">>
      [] c.before = "add0"                -> <<"emb_sum", "attn_out">>
      [] c.before \in {"add1", "add1_ln"} -> <<"attn_out", "emb_sum">>
      [] c.before = "addBoth"             -> <<"emb_sum", "emb2_sum">>
      [] c.before = "addNoLN"             -> <<"emb_sum", "attn_out">>
      [] OTHER                            -> <<"in_a", "attn_out">>

BeforeNodes(c) ==
    (IF c.before \in SlnBefore
     THEN <<N("prev_sln", "SkipLayerNormalization", <<"in_a", "in_b", "g0", "b0">>,
              <<"prev_norm", "", "", "prev_sum">>)>>
     ELSE <<>>)
    \o (IF c.before = "slnBoth"
        THEN <<N("prev_sln2", "SkipLayerNormalization", <<"in_c", "in_d", "g0", "b0">>,
                 <<"prev2_norm", "", "", "prev2_sum">>)>>
        ELSE <<>>)
    \o (IF c.before \in AddBefore \cup {"addNoLN"}
        THEN <<N("emb_add", "Add", <<"in_a", "in_b">>, <<"emb_sum">>)>>
        ELSE <<>>)
    \o (IF c.before \in AddBefore
        THEN <<N("emb_ln", "LayerNormalization", <<"emb_sum", "g0", "b0">>, <<"emb_norm">>)>>
        ELSE <<>>)
    \o (IF c.before = "addBoth"
        THEN <<N("emb_add2", "Add", <<"in_c", "in_d">>, <<"emb2_sum">>),
               N("emb_ln2", "LayerNormalization", <<"emb2_sum", "g0", "b0">>,
                 <<"emb2_norm">>)>>
        ELSE <<>>)

MaskNodes(c) ==
    IF c.mask = "absent" THEN <<>>
    ELSE <<N("m_less", "Less", <<"pos_a", "pos_b">>, <<"m_less_o">>),
           N("m_where", "Where", <<"m_less_o", "zero", "ninf">>, <<"m_where_o">>),
           N("m_unsq1", "Unsqueeze", <<"m_where_o", "axes">>, <<"m_u1">>),
           N("m_unsq2", "Unsqueeze", <<"m_u1", "axes">>, <<"m_u2">>),
           N("m_expand", "Expand", <<"m_u2", "m_shape">>,
             <<IF c.mask = "expand" THEN "mask" ELSE "m_exp">>)>>
         \o (IF c.mask = "concat"
             THEN <<N("m_concat", "Concat", <<"m_exp", "m_pad">>, <<"mask">>)>>
             ELSE <<>>)
         \o (IF c.mask = "reshape"
             THEN <<N("m_reshape", "Reshape", <<"m_exp", "shape4">>, <<"mask">>)>>
             ELSE <<>>)

ShapeNodes(c) ==
    (IF c.nh.kind = "node" THEN <<ConstantNode("nh_const", "nh_c", c.nh.v)>> ELSE <<>>)
    \o (IF c.hs.kind = "node" THEN <<ConstantNode("hs_const", "hs_c", c.hs.v)>> ELSE <<>>)
    \o (CASE c.shape = "concat4" ->
                <<N("q_shape_concat", "Concat", <<"d0", "d1", "nh_c", "hs_c">>, <<"q_shape">>)>>
          [] c.shape = "concat3" ->
                <<N("q_shape_concat", "Concat", <<"d0", "nh_c", "hs_c">>, <<"q_shape">>)>>
          [] OTHER -> <<>>)

\* the operator kind of a node of the pattern, or what stands in its place
\* when its chain is the broken one
Kind(c, defect, op_type) == IF c.defect = defect THEN "Identity" ELSE op_type

\* the edge a MatMul of the Q, K or V branch reads
Root(c, defect) == IF c.defect = defect THEN "other" ELSE RootEdge(c)

AttentionNodes(c) ==
    <<N("matmul_q", "MatMul", <<Root(c, "rootq"), "q_w">>, <<"q_mm">>),
      N("add_q", "Add", <<"q_b", "q_mm">>, <<"q_add">>),
      N("mul_q", Kind(c, "q", "Mul"), <<"q_add", "scale">>, <<"q_mul">>),
      N("reshape_q", "Reshape", <<"q_mul", "q_shape">>, <<"q_rs">>),
      N("transpose_q", "Transpose", <<"q_rs">>, <<"q_tr">>),
      N("reshape_q2", "Reshape", <<"q_tr", "shape3">>, <<"q_rs2">>),
      N("matmul_k", "MatMul", <<Root(c, "rootk"), "k_w">>, <<"k_mm">>),
      N("add_k", "Add", <<"k_b", "k_mm">>, <<"k_add">>),
      N("reshape_k", "Reshape", <<"k_add", "q_shape">>, <<"k_rs">>),
      N("transpose_k", "Transpose", <<"k_rs">>, <<"k_tr">>),
      N("reshape_k2", "Reshape", <<"k_tr", "shape3">>, <<"k_rs2">>),
      N("transpose_k2", Kind(c, "k", "Transpose"), <<"k_rs2">>, <<"k_tr2">>),
      N("matmul_qk", "MatMul", <<"q_rs2", "k_tr2">>, <<"qk">>),
      N("reshape_qk", "Reshape", <<"qk", "shape4">>, <<"qk_rs">>),
      N("add_mask", "Add",
        IF c.mask_slot = 1 THEN <<"qk_rs", "mask">> ELSE <<"mask", "qk_rs">>,
        <<"qk_masked">>),
      N("reshape_qk2", "Reshape", <<"qk_masked", "shape3">>, <<"qk_rs2">>),
      N("softmax", Kind(c, "qk", "Softmax"), <<"qk_rs2">>, <<"probs">>),
      N("matmul_v", "MatMul", <<Root(c, "rootv"), "v_w">>, <<"v_mm">>),
      N("add_v", "Add", <<"v_b", "v_mm">>, <<"v_add">>),
      N("reshape_v", "Reshape", <<"v_add", "q_shape">>, <<"v_rs">>),
      N("transpose_v", Kind(c, "v", "Transpose"), <<"v_rs">>, <<"v_tr">>),
      N("reshape_v2", "Reshape", <<"v_tr", "shape3">>, <<"v_rs2">>),
      N("matmul_qkv", "MatMul", <<"probs", "v_rs2">>, <<"ctx">>),
      N("reshape_ctx", "Reshape", <<"ctx", "shape4">>, <<"ctx_rs">>),
      N("transpose_qkv", Kind(c, "qkv", "Transpose"), <<"ctx_rs">>, <<"ctx_tr">>),
      N("reshape_qkv", "Reshape", <<"ctx_tr", "shape_o">>, <<"ctx_out">>),
      N("matmul_o", "MatMul", <<"ctx_out", "o_w">>, <<"o_mm">>),
      N("add_o", "Add", <<"o_b", "o_mm">>, <<"attn_out">>)>>
    \o (IF c.before \in {"sln1_ln", "add1_ln"}
        THEN <<N("attn_ln", "LayerNormalization", <<"attn_out", "g0", "b0">>,
                 <<"attn_norm">>)>>
        ELSE <<>>)

AnchorNode(c) ==
    N("sln", "SkipLayerNormalization", AnchorInputs(c) \o <<"g1", "b1">>,
      <<"sln_out", "", "", "sln_sum">>)

\* the weights and biases that are initializers (their values play no part)
WeightNames(c) ==
    {"q_b", "k_w", "k_b", "v_w", "v_b", "o_w", "o_b", "g0", "b0", "g1", "b1",
     "scale", "shape3", "shape4", "shape_o"}
    \cup (IF c.defect = "noweight" THEN {} ELSE {"q_w"})
    \cup (IF c.shape = "noconcat" THEN {"q_shape"} ELSE {})

Initializers(c) ==
    [e \in WeightNames(c) \cup (IF c.nh.kind = "init" THEN {"nh_c"} ELSE {})
                          \cup (IF c.hs.kind = "init" THEN {"hs_c"} ELSE {}) |->
        IF e = "nh_c" THEN c.nh.v ELSE IF e = "hs_c" THEN c.hs.v ELSE <<>>]

ClipGraph(c) ==
    [node        |-> BeforeNodes(c) \o MaskNodes(c) \o ShapeNodes(c)
                       \o AttentionNodes(c) \o <<AnchorNode(c)>>,
     initializer |-> Initializers(c),
     value_info  |-> <<>>,
     output      |-> {"sln_out"},
     empty       |-> ""]

(***************************************************************************)
(* FusionAttentionClip.                                                    *)
(***************************************************************************)
\* `self` is the record of the pass object's fields that fuse reads:
\* [num_heads, hidden_size, num_heads_warning, hidden_size_warning, created]
\* (created: how many node names create_node_name has handed out)

\* the hints, and nothing logged
UseHints(self) ==
    [num_heads |-> self.num_heads, hidden_size |-> self.hidden_size,
     detected |-> FALSE, warn_num_heads |-> FALSE, warn_hidden_size |-> FALSE]

\* a constant of one element, whatever its sign
IsSingle(value) == Len(value) = 1

\* lines 55, 64: the constant is usable
IsSinglePositive(value) == Len(value) = 1 /\ value[1] > 0

\* the hint is contradicted, whether or not that was said before
WarnEveryTime(hint, detected, warning) == hint > 0 /\ detected # hint

\* lines 71-72, 76-77: the hint is contradicted and the warning is still due
WarnNow(hint, detected, warning) == hint > 0 /\ detected # hint /\ warning

\* lines 39-83
get_num_heads_and_hidden_size(g, self, reshape_q) ==
    LET concat == match_parent(g, reshape_q, "Concat", 1)
    IN  IF concat = NoneNode \/ Len(g.node[concat].input) # 4 THEN UseHints(self)
        ELSE
        LET num_head_value == get_constant_value(g, g.node[concat].input[3])
        IN  IF ~num_head_value.ok THEN UseHints(self)
            ELSE IF ~IsSinglePositive(num_head_value.v) THEN UseHints(self)
            ELSE
            LET heads == num_head_value.v[1]
                head_size_value == get_constant_value(g, g.node[concat].input[4])
            IN  IF ~head_size_value.ok THEN UseHints(self)
                ELSE IF ~IsSinglePositive(head_size_value.v) THEN UseHints(self)
                ELSE
                LET head_size == head_size_value.v[1]
                    hidden == heads * head_size
                IN  [num_heads |-> heads, hidden_size |-> hidden, detected |-> TRUE,
                     warn_num_heads |->
                         WarnNow(self.num_heads, heads, self.num_heads_warning),
                     warn_hidden_size |->
                         WarnNow(self.hidden_size, hidden, self.hidden_size_warning)]

\* OnnxModel.create_node_name("Attention"): a name no node has yet
AttentionNames == <<"Attention_0", "Attention_1", "Attention_2", "Attention_3">>

\* FusionAttention.create_attention_node: None when the weights are not
\* initializers or the hidden size is no multiple of the head count, else the
\* Attention node reading `input` and writing `output`
create_attention_node(g, self, q_matmul, k_matmul, v_matmul, heads, hidden, input, output) ==
    IF hidden > 0 /\ hidden % heads # 0 THEN [ok |-> FALSE]
    ELSE IF \E m \in {q_matmul, k_matmul, v_matmul} :
                g.node[m].input[2] \notin DOMAIN g.initializer
    THEN [ok |-> FALSE]
    ELSE [ok |-> TRUE,
          node |-> [name |-> AttentionNames[self.created + 1],
                    op_type |-> "Attention",
                    input |-> <<input, "qkv_weight", "qkv_bias">>,
                    output |-> <<output>>,
                    value |-> <<heads, hidden>>]]

\* lines 88-92: the loop over the slots; a later match replaces an earlier one
RECURSIVE SkipLayerNormParent(_, _, _, _)
SkipLayerNormParent(g, n, slots, found) ==
    IF slots = <<>> THEN found
    ELSE LET parent == match_parent(g, n, "SkipLayerNormalization", Head(slots))
         IN  SkipLayerNormParent(g, n, Tail(slots),
                 IF parent # NoneNode
                 THEN [skip_input_index |-> Head(slots), node |-> parent]
                 ELSE found)

\* lines 99-110: the loop over the slots; the first Add with a
\* LayerNormalization child ends it
RECURSIVE AddParentWithLayerNorm(_, _, _)
AddParentWithLayerNorm(g, n, slots) ==
    IF slots = <<>> THEN [skip_input_index |-> NoneIndex, root_input |-> ""]
    ELSE LET node_before_layer_norm == match_parent(g, n, "Add", Head(slots))
         IN  IF node_before_layer_norm = NoneNode
             THEN AddParentWithLayerNorm(g, n, Tail(slots))
             ELSE LET child == find_first_child_by_type(g, node_before_layer_norm,
                                                        "LayerNormalization")
                  IN  IF child = NoneNode
                      THEN AddParentWithLayerNorm(g, n, Tail(slots))
                      ELSE [skip_input_index |-> Head(slots),
                            root_input |-> g.node[child].output[1]]

\* line 88: the order in which the slots are tried for a SkipLayerNormalization
SkipLayerNormSlots == <<1, 0>>

\* line 99: the order in which the slots are tried for an Add
AddSlots == <<0, 1>>

\* lines 86-113: the node before the anchor
NodeBefore(g, n) ==
    LET sln == SkipLayerNormParent(g, n, SkipLayerNormSlots,
                                   [skip_input_index |-> NoneIndex, node |-> NoneNode])
    IN  IF sln.node # NoneNode
        THEN [skip_input_index |-> sln.skip_input_index,
              root_input |-> g.node[sln.node].output[1]]
        ELSE AddParentWithLayerNorm(g, n, AddSlots)

\* what a call of fuse leaves behind when it returns at `stage` with nothing
\* queued; `before` is what lines 86-113 found, `heads` what
\* get_num_heads_and_hidden_size returned if it was called
NotCalled ==
    [num_heads |-> 0, hidden_size |-> 0, detected |-> FALSE,
     warn_num_heads |-> FALSE, warn_hidden_size |-> FALSE]

ReturnedAskingToPrune(stage, before, indices, heads, called) ==
    [stage |-> stage,
     skip_input_index |-> before.skip_input_index,
     root_input |-> before.root_input,
     add_mask_indices |-> indices,
     heads |-> heads,
     heads_called |-> called,
     add |-> <<>>,
     remove |-> <<>>,
     prune |-> TRUE]

Returned(stage, before, indices, heads, called) ==
    [stage |-> stage,
     skip_input_index |-> before.skip_input_index,
     root_input |-> before.root_input,
     add_mask_indices |-> indices,
     heads |-> heads,
     heads_called |-> called,
     add |-> <<>>,
     remove |-> <<>>,
     prune |-> FALSE]

\* only the Q and the K branch are compared with the root edge
SameRootQK(g, matmul_q, matmul_k, matmul_v, root_input) ==
    ~ (\/ g.node[matmul_q].input[1] # root_input
       \/ g.node[matmul_k].input[1] # root_input)

\* line 164: the three branches read the root edge
SameRoot(g, matmul_q, matmul_k, matmul_v, root_input) ==
    ~ (\/ g.node[matmul_q].input[1] # root_input
       \/ g.node[matmul_k].input[1] # root_input
       \/ g.node[matmul_v].input[1] # root_input)

\* line 169
HeadsUsable(heads) == ~ (heads.num_heads <= 0 \/ heads.hidden_size <= 0)

\* lines 177-191: the key path of the causal mask, with or without Concat
CausalMaskMatched(g, add_mask, causal_mask_input_index) ==
    \/ match_parent_path(g, add_mask,
           <<"Concat", "Expand", "Unsqueeze", "Unsqueeze", "Where", "Less">>,
           <<causal_mask_input_index, 0, 0, 0, 0, 0>>).ok
    \/ match_parent_path(g, add_mask,
           <<"Expand", "Unsqueeze", "Unsqueeze", "Where", "Less">>,
           <<causal_mask_input_index, 0, 0, 0, 0>>).ok

\* only the last node of the subgraph is queued
NodesToRemoveLast(g, attention_last_node, transpose_qkv) ==
    <<g.node[attention_last_node].name>>

\* pruning is not asked for
PruneNotRequested == FALSE

\* line 218: self.prune_graph = True
PruneRequested == TRUE

\* line 215: the nodes fuse queues for removal
NodesToRemove(g, attention_last_node, transpose_qkv) ==
    <<g.node[attention_last_node].name, g.node[transpose_qkv].name>>

\* lines 193-218: the Attention node is queued, or nothing if there is none
fuse_queue(g, before, qkv_nodes, qk_nodes, heads, new_node) ==
    IF ~new_node.ok
    THEN Returned("no_new_node", before, qk_nodes.indices, heads, TRUE)
    ELSE [Returned("fused", before, qk_nodes.indices, heads, TRUE) EXCEPT
             !.add = <<new_node.node>>,
             !.remove = NodesToRemove(g, qkv_nodes.nodes[3], qkv_nodes.nodes[4]),
             !.prune = PruneRequested]

\* lines 168-208: the head count, the causal mask, the new node
\* (attention_last_node is reshape_qkv, the third node of the qkv path)
fuse_heads(g, self, before, qkv_nodes, v_nodes, qk_nodes, q_nodes, k_nodes, heads) ==
    IF ~HeadsUsable(heads)
    THEN Returned("no_heads", before, qk_nodes.indices, heads, TRUE)
    ELSE IF ~CausalMaskMatched(g, qk_nodes.nodes[3], 1 - qk_nodes.indices[1])
    THEN Returned("no_causal_mask", before, qk_nodes.indices, heads, TRUE)
    ELSE fuse_queue(g, before, qkv_nodes, qk_nodes, heads,
             create_attention_node(g, self, q_nodes.nodes[6], k_nodes.nodes[6],
                 v_nodes.nodes[5], heads.num_heads, heads.hidden_size,
                 before.root_input, g.node[qkv_nodes.nodes[3]].output[1]))

\* lines 159-168: the k path, the shared root
\* (matmul_q, matmul_k: the sixth nodes of their paths, matmul_v the fifth;
\* reshape_q: the third node of the q path)
fuse_k(g, self, before, qkv_nodes, v_nodes, qk_nodes, q_nodes, k_nodes) ==
    IF ~k_nodes.ok THEN Returned("no_k", before, qk_nodes.indices, NotCalled, FALSE)
    ELSE IF ~SameRoot(g, q_nodes.nodes[6], k_nodes.nodes[6], v_nodes.nodes[5],
                      before.root_input)
    THEN Returned("root_mismatch", before, qk_nodes.indices, NotCalled, FALSE)
    ELSE fuse_heads(g, self, before, qkv_nodes, v_nodes, qk_nodes, q_nodes, k_nodes,
             get_num_heads_and_hidden_size(g, self, q_nodes.nodes[3]))

\* lines 151-158: the q path (matmul_qk: the fifth node of the qk path)
fuse_q(g, self, before, qkv_nodes, v_nodes, qk_nodes, q_nodes) ==
    IF ~q_nodes.ok THEN Returned("no_q", before, qk_nodes.indices, NotCalled, FALSE)
    ELSE fuse_k(g, self, before, qkv_nodes, v_nodes, qk_nodes, q_nodes,
             match_parent_path(g, qk_nodes.nodes[5],
                 <<"Transpose", "Reshape", "Transpose", "Reshape", "Add", "MatMul">>,
                 <<1, 0, 0, 0, 0, Wild>>))

\* lines 140-150: the qk path and the slot recorded for the mask Add
fuse_qk(g, self, before, qkv_nodes, v_nodes, qk_nodes) ==
    IF ~qk_nodes.ok THEN Returned("no_qk", before, qk_nodes.indices, NotCalled, FALSE)
    ELSE IF Len(qk_nodes.indices) # 1
    THEN Returned("assertion_error", before, qk_nodes.indices, NotCalled, FALSE)
    ELSE fuse_q(g, self, before, qkv_nodes, v_nodes, qk_nodes,
             match_parent_path(g, qk_nodes.nodes[5],
                 <<"Reshape", "Transpose", "Reshape", "Mul", "Add", "MatMul">>,
                 <<0, 0, 0, 0, Wild, Wild>>))

\* the qk path with the mask Add read at slot 0, no wildcard
QkSlotsWithoutWildcard == <<0, 0, 0, 0, 0>>

\* line 137: the slots of the qk path, the Reshape behind the mask Add at any
QkSlots == <<0, 0, 0, Wild, 0>>

\* lines 128-139: the v path (matmul_qkv: the sixth node of the qkv path)
fuse_v(g, self, before, qkv_nodes, v_nodes) ==
    IF ~v_nodes.ok THEN Returned("no_v", before, <<>>, NotCalled, FALSE)
    ELSE fuse_qk(g, self, before, qkv_nodes, v_nodes,
             match_parent_path(g, qkv_nodes.nodes[6],
                 <<"Softmax", "Reshape", "Add", "Reshape", "MatMul">>,
                 QkSlots))

\* lines 120-127: the qkv path
fuse_qkv(g, self, before, qkv_nodes) ==
    IF ~qkv_nodes.ok THEN Returned("no_qkv", before, <<>>, NotCalled, FALSE)
    ELSE fuse_v(g, self, before, qkv_nodes,
             match_parent_path(g, qkv_nodes.nodes[6],
                 <<"Reshape", "Transpose", "Reshape", "Add", "MatMul">>,
                 <<1, 0, 0, 0, Wild>>))

\* lines 112-119: the anchor is skipped, or the qkv path is looked for
fuse_before(g, self, n, before) ==
    IF before.skip_input_index = NoneIndex
    THEN Returned("no_node_before", before, <<>>, NotCalled, FALSE)
    ELSE fuse_qkv(g, self, before,
             match_parent_path(g, n,
                 <<"Add", "MatMul", "Reshape", "Transpose", "Reshape", "MatMul">>,
                 <<1 - before.skip_input_index, Wild, Wild, 0, 0, 0>>))

\* lines 85-218: fuse(normalize_node, ...) on node n of graph g
fuse(g, self, n) == fuse_before(g, self, n, NodeBefore(g, n))

(***************************************************************************)
(* The end of Fusion.apply, after the loop over the anchors: the queued    *)
(* removals and additions, then prune_graph or update_graph.  The nodes    *)
(* are not sorted here and the lists of the pass are not emptied.          *)
(***************************************************************************)
\* OnnxModel.remove_nodes
remove_nodes(g, names) ==
    [g EXCEPT !.node = SelectSeq(g.node, LAMBDA n : n.name \notin Range(names))]

\* OnnxModel.add_nodes: the nodes are appended to the node list
add_nodes(g, nodes) == [g EXCEPT !.node = g.node \o nodes]

\* OnnxModel.input_name_to_nodes: the edges some node reads
InputNames(g) == UNION {Range(g.node[i].input) : i \in 1..Len(g.node)} \ {g.empty}

\* OnnxModel.get_parent_subgraph_nodes: the nodes found from `found` by going
\* from a node to the producers of its inputs, where the producer of an edge
\* is the last node of the list that writes it
RECURSIVE get_parent_subgraph_nodes(_, _)
get_parent_subgraph_nodes(g, found) ==
    LET parents == {output_name_to_node(g, e) :
                       e \in UNION {Range(g.node[i].input) : i \in found}} \ {NoneNode}
    IN  IF parents \subseteq found THEN found
        ELSE get_parent_subgraph_nodes(g, found \cup parents)

\* OnnxModel.remove_unused_constant
remove_unused_constant(g) ==
    [g EXCEPT !.node = SelectSeq(g.node, LAMBDA n :
                           ~(n.op_type = "Constant" /\ n.output[1] \notin InputNames(g)))]

\* the initializers whose name is among `names`; the graphs of the Clip pass
\* keep their initializers by name, the others as the list of tensors
UsedWeights(initializer, names, by_name) ==
    IF by_name THEN [e \in DOMAIN initializer \cap names |-> initializer[e]]
    ELSE SelectSeq(initializer, LAMBDA t : t.name \in names)

\* OnnxModel.update_graph: nothing with a Loop, Scan or If node; else the
\* initializers no node but a Constant reads are removed, then the Constant
\* nodes nobody reads
update_graph(g, by_name) ==
    IF \E i \in 1..Len(g.node) : g.node[i].op_type \in {"Loop", "Scan", "If"} THEN g
    ELSE remove_unused_constant(
             [g EXCEPT !.initializer =
                 UsedWeights(@, UNION {Range(g.node[i].input) :
                                         i \in {j \in 1..Len(g.node) :
                                                  g.node[j].op_type # "Constant"}},
                             by_name)])

\* prune_graph on the node list: the nodes stay from which a graph output is
\* reached
prune(g) ==
    LET last_nodes == {output_name_to_node(g, e) : e \in g.output} \ {NoneNode}
        all_nodes == get_parent_subgraph_nodes(g, last_nodes)
    IN  [g EXCEPT !.node = [k \in 1..Cardinality(all_nodes) |->
                               g.node[CHOOSE i \in all_nodes :
                                         Cardinality({j \in all_nodes : j < i}) = k - 1]]]

\* prune_graph, after the nodes: the graph inputs no node reads are removed
\* (the graphs of the Clip pass are kept without their input list)
RemoveUnusedInputs(g) ==
    IF "input" \in DOMAIN g
    THEN [g EXCEPT !.input = SelectSeq(@, LAMBDA vi : vi.name \in InputNames(g))]
    ELSE g

\* Fusion.apply after the loop: remove_nodes, add_nodes, then prune_graph
\* (the nodes, the graph inputs, update_graph) if the pass asked for it, else
\* update_graph if something was queued
apply_edits(g, pending, by_name) ==
    LET edited == add_nodes(remove_nodes(g, pending.nodes_to_remove), pending.nodes_to_add)
    IN  IF pending.prune_graph THEN update_graph(RemoveUnusedInputs(prune(edited)), by_name)
        ELSE IF pending.nodes_to_remove # <<>> \/ pending.nodes_to_add # <<>>
        THEN update_graph(edited, by_name)
        ELSE edited

(***************************************************************************)
(* FusionAttentionClip: the inputs and the steps of apply().               *)
(***************************************************************************)
\* where the constant at a Concat input comes from, and its value
ConstValues == { <<>>, <<-1>>, <<0>>, <<1, 1>> } \cup { <<k>> : k \in 1..MaxDim }

ConstSources ==
    { [kind |-> "unresolved", v |-> <<>>], [kind |-> "node", v |-> <<MaxDim>>] }
    \cup { [kind |-> "init", v |-> x] : x \in ConstValues }

HeadHints == 0..MaxDim

HiddenHints == {0, MaxDim, MaxDim * MaxDim, MaxDim * MaxDim + 1}

\* every structure of the layer, with the shape constants of a plain export
\* or no shape Concat at all
StructureConfigs ==
    [before : Befores, defect : Defects, mask : Masks, mask_slot : {0, 1},
     shape : {"concat4", "noconcat"},
     nh : {[kind |-> "init", v |-> <<MaxDim>>]},
     hs : {[kind |-> "init", v |-> <<MaxDim>>]},
     num_heads : {0, MaxDim}, hidden_size : {0, MaxDim * MaxDim}]

\* a layer that otherwise matches, with every pair of hints and every origin
\* and value of the shape constants, or another producer of the shape
PlainConstant == [kind |-> "init", v |-> <<MaxDim>>]

DetectionConfigs ==
    [before : {"sln1", "add0"}, defect : {"ok"}, mask : {"concat"}, mask_slot : {1},
     shape : {"concat4"}, nh : ConstSources, hs : ConstSources,
     num_heads : HeadHints, hidden_size : HiddenHints]
    \cup
    [before : {"sln1", "add0"}, defect : {"ok"}, mask : {"concat"}, mask_slot : {1},
     shape : {"concat3", "noconcat"}, nh : {PlainConstant}, hs : {PlainConstant},
     num_heads : HeadHints, hidden_size : HiddenHints]

ClipConfigs == StructureConfigs \cup DetectionConfigs

InitClip ==
    /\ RewriterIdle
    /\ cfg \in ClipConfigs
    /\ graph = ClipGraph(cfg)
    /\ graph0 = graph
    /\ pc = "fuse"
    /\ log = <<>>
    /\ nodes_to_add = <<>>
    /\ nodes_to_remove = <<>>
    /\ node_name_to_graph_name = <<>>
    /\ prune_graph = FALSE
    /\ num_heads = cfg.num_heads
    /\ hidden_size = cfg.hidden_size
    /\ num_heads_warning = TRUE
    /\ hidden_size_warning = TRUE
    /\ todo = get_nodes_by_op_type(graph, {"SkipLayerNormalization"})
    /\ last = <<>>
    /\ fuse_layernorm = FALSE
    /\ opset_import = <<>>
    /\ modified = FALSE
    /\ available_suffix = 0
    /\ idx = 0
    /\ applied = <<>>
    /\ saved = <<>>
    /\ ret = "none"

Self ==
    [num_heads |-> num_heads, hidden_size |-> hidden_size,
     num_heads_warning |-> num_heads_warning,
     hidden_size_warning |-> hidden_size_warning,
     created |-> Len(nodes_to_add)]

Pending ==
    [nodes_to_add |-> nodes_to_add, nodes_to_remove |-> nodes_to_remove,
     node_name_to_graph_name |-> node_name_to_graph_name, prune_graph |-> prune_graph]

\* Fusion.apply: the next anchor is handed to FusionAttentionClip.fuse
FuseClip ==
    /\ UNCHANGED rewriterVars
    /\ pc = "fuse"
    /\ todo # <<>>
    /\ LET n == Head(todo)
           r == fuse(graph, Self, n)
       IN  /\ nodes_to_add' = nodes_to_add \o r.add
           /\ node_name_to_graph_name' =
                 [name \in DOMAIN node_name_to_graph_name \cup {m.name : m \in Range(r.add)} |->
                     "this_graph"]
           /\ nodes_to_remove' = nodes_to_remove \o r.remove
           /\ prune_graph' = (IF r.prune THEN TRUE ELSE prune_graph)
           /\ num_heads_warning' = (IF r.heads.warn_num_heads THEN FALSE
                                    ELSE num_heads_warning)
           /\ hidden_size_warning' = (IF r.heads.warn_hidden_size THEN FALSE
                                      ELSE hidden_size_warning)
           /\ log' = log \o (IF r.heads.warn_num_heads THEN <<"num_heads">> ELSE <<>>)
                         \o (IF r.heads.warn_hidden_size THEN <<"hidden_size">> ELSE <<>>)
           /\ last' = [pass |-> "clip", anchor |-> graph.node[n].name, result |-> r,
                       pre |-> Pending]
           /\ pc' = (IF r.stage = "assertion_error" THEN "error" ELSE "fuse")
    /\ todo' = Tail(todo)
    /\ UNCHANGED <<graph, graph0, cfg, num_heads, hidden_size, qnnVars>>

\* Fusion.apply after the loop: the queued edits are applied to the graph;
\* the lists of the pass stay as they are
Commit ==
    /\ UNCHANGED rewriterVars
    /\ pc = "fuse"
    /\ todo = <<>>
    /\ graph' = apply_edits(graph, Pending, TRUE)
    /\ pc' = "done"
    /\ UNCHANGED <<graph0, cfg, log, nodes_to_add, nodes_to_remove,
                   node_name_to_graph_name, prune_graph, num_heads,
                   hidden_size, num_heads_warning, hidden_size_warning, todo, last,
                   qnnVars>>

NextClip ==
    \/ FuseClip
    \/ Commit

SpecClip == InitClip /\ [][NextClip]_vars

(***************************************************************************)
(* FusionAttentionClip on two attention layers in a row: the anchor of the *)
(* first layer is the SkipLayerNormalization before the second.  The nodes *)
(* and edges of the second layer carry the suffix "_2".                    *)
(***************************************************************************)
SecondEdge(e) ==
    IF e = "" THEN ""
    ELSE IF e = "prev_norm" THEN "sln_out"
    ELSE IF e = "prev_sum" THEN "sln_sum"
    ELSE e \o "_2"

SecondNode(node) ==
    [name    |-> node.name \o "_2",
     op_type |-> node.op_type,
     input   |-> [k \in DOMAIN node.input |-> SecondEdge(node.input[k])],
     output  |-> [k \in DOMAIN node.output |-> SecondEdge(node.output[k])],
     value   |-> node.value]

\* a layer that matches the pattern, with the given shape constants
Layer(nh, hs) ==
    [before |-> "sln1", defect |-> "ok", mask |-> "concat", mask_slot |-> 1,
     shape |-> "concat4", nh |-> nh, hs |-> hs]

FirstLayer(c) == Layer(c.nh, c.hs)

SecondLayer(c) == Layer(c.nh2, c.hs2)

SecondLayerNodes(c) ==
    LET nodes == MaskNodes(c) \o ShapeNodes(c) \o AttentionNodes(c) \o <<AnchorNode(c)>>
    IN  [k \in DOMAIN nodes |-> SecondNode(nodes[k])]

SecondInitializers(c) ==
    [e \in {SecondEdge(x) : x \in DOMAIN Initializers(c)} |->
        IF e = "nh_c_2" THEN c.nh.v ELSE IF e = "hs_c_2" THEN c.hs.v ELSE <<>>]

TwoLayerGraph(c) ==
    LET first == ClipGraph(FirstLayer(c))
        second == SecondInitializers(SecondLayer(c))
    IN  [node        |-> first.node \o SecondLayerNodes(SecondLayer(c)),
         initializer |-> [e \in DOMAIN first.initializer \cup DOMAIN second |->
                             IF e \in DOMAIN second THEN second[e]
                             ELSE first.initializer[e]],
         value_info  |-> <<>>,
         output      |-> {"sln_out_2"},
         empty       |-> ""]

\* shape constants that resolve (to 1 or MaxDim) and one that is not positive
LayerConstants == { [kind |-> "init", v |-> <<x>>] : x \in {0, 1, MaxDim} }

TwoLayerConfigs ==
    [nh : LayerConstants, hs : LayerConstants, nh2 : LayerConstants, hs2 : LayerConstants,
     num_heads : HeadHints, hidden_size : HiddenHints]

InitClipTwo ==
    /\ RewriterIdle
    /\ cfg \in TwoLayerConfigs
    /\ graph = TwoLayerGraph(cfg)
    /\ graph0 = graph
    /\ pc = "fuse"
    /\ log = <<>>
    /\ nodes_to_add = <<>>
    /\ nodes_to_remove = <<>>
    /\ node_name_to_graph_name = <<>>
    /\ prune_graph = FALSE
    /\ num_heads = cfg.num_heads
    /\ hidden_size = cfg.hidden_size
    /\ num_heads_warning = TRUE
    /\ hidden_size_warning = TRUE
    /\ todo = get_nodes_by_op_type(graph, {"SkipLayerNormalization"})
    /\ last = <<>>
    /\ fuse_layernorm = FALSE
    /\ opset_import = <<>>
    /\ modified = FALSE
    /\ available_suffix = 0
    /\ idx = 0
    /\ applied = <<>>
    /\ saved = <<>>
    /\ ret = "none"

SpecClipTwo == InitClipTwo /\ [][NextClip]_vars

(***************************************************************************)
(* onnx_model_phi.py.  Node and edge names of these graphs are sequences   *)
(* of characters: uname and process_initializer build names by             *)
(* concatenation.                                                          *)
(***************************************************************************)
\* the string literals of fuse_with_attn, as character sequences
Lit ==
    [ln_out |-> <<"l", "n", "_", "o", "u", "t">>,
     attn_out |-> <<"a", "t", "t", "n", "_", "o", "u", "t">>,
     matmul_out |-> <<"m", "a", "t", "m", "u", "l", "_", "o", "u", "t">>,
     add_out |-> <<"a", "d", "d", "_", "o", "u", "t">>,
     fc1_w_out |-> <<"f", "c", "1", "_", "w", "_", "o", "u", "t">>,
     fc1_b_out |-> <<"f", "c", "1", "_", "b", "_", "o", "u", "t">>,
     new_gelu_out |-> <<"n", "e", "w", "_", "g", "e", "l", "u", "_", "o", "u", "t">>,
     fc2_w_out |-> <<"f", "c", "2", "_", "w", "_", "o", "u", "t">>,
     fc2_b_out |-> <<"f", "c", "2", "_", "b", "_", "o", "u", "t">>,
     residual_1_out |-> <<"r", "e", "s", "i", "d", "u", "a", "l", "_", "1", "_", "o", "u", "t">>,
     LayerNormalization |-> <<"L", "a", "y", "e", "r", "N", "o", "r", "m", "a", "l", "i", "z", "a", "t", "i", "o", "n">>,
     Attention |-> <<"A", "t", "t", "e", "n", "t", "i", "o", "n">>,
     OutProj_MatMul |-> <<"O", "u", "t", "P", "r", "o", "j", "_", "M", "a", "t", "M", "u", "l">>,
     OutProj_Add |-> <<"O", "u", "t", "P", "r", "o", "j", "_", "A", "d", "d">>,
     FC1_MatMul |-> <<"F", "C", "1", "_", "M", "a", "t", "M", "u", "l">>,
     FC1_Bias |-> <<"F", "C", "1", "_", "B", "i", "a", "s">>,
     FastGelu |-> <<"F", "a", "s", "t", "G", "e", "l", "u">>,
     FC2_MatMul |-> <<"F", "C", "2", "_", "M", "a", "t", "M", "u", "l">>,
     FC2_Bias |-> <<"F", "C", "2", "_", "B", "i", "a", "s">>,
     Residual_Add_1 |-> <<"R", "e", "s", "i", "d", "u", "a", "l", "_", "A", "d", "d", "_", "1">>,
     Residual_Add_2 |-> <<"R", "e", "s", "i", "d", "u", "a", "l", "_", "A", "d", "d", "_", "2">>]

\* line 88: range(32)
NumLayers == 32

\* line 89: the function name of layer k is nodes_to_find[k]
nodes_to_find ==
    <<"model_modeling_mixformer_sequential_ParallelBlock_sub1_1",
      "model_modeling_mixformer_sequential_ParallelBlock_sub2_1",
      "model_modeling_mixformer_sequential_ParallelBlock_sub3_1",
      "model_modeling_mixformer_sequential_ParallelBlock_sub4_1",
      "model_modeling_mixformer_sequential_ParallelBlock_sub5_1",
      "model_modeling_mixformer_sequential_ParallelBlock_sub6_1",
      "model_modeling_mixformer_sequential_ParallelBlock_sub7_1",
      "model_modeling_mixformer_sequential_ParallelBlock_sub8_1",
      "model_modeling_mixformer_sequential_ParallelBlock_sub9_1",
      "model_modeling_mixformer_sequential_ParallelBlock_sub10_1",
      "model_modeling_mixformer_sequential_ParallelBlock_sub11_1",
      "model_modeling_mixformer_sequential_ParallelBlock_sub12_1",
      "model_modeling_mixformer_sequential_ParallelBlock_sub13_1",
      "model_modeling_mixformer_sequential_ParallelBlock_sub14_1",
      "model_modeling_mixformer_sequential_ParallelBlock_sub15_1",
      "model_modeling_mixformer_sequential_ParallelBlock_sub16_1",
      "model_modeling_mixformer_sequential_ParallelBlock_sub17_1",
      "model_modeling_mixformer_sequential_ParallelBlock_sub18_1",
      "model_modeling_mixformer_sequential_ParallelBlock_sub19_1",
      "model_modeling_mixformer_sequential_ParallelBlock_sub20_1",
      "model_modeling_mixformer_sequential_ParallelBlock_sub21_1",
      "model_modeling_mixformer_sequential_ParallelBlock_sub22_1",
      "model_modeling_mixformer_sequential_ParallelBlock_sub23_1",
      "model_modeling_mixformer_sequential_ParallelBlock_sub24_1",
      "model_modeling_mixformer_sequential_ParallelBlock_sub25_1",
      "model_modeling_mixformer_sequential_ParallelBlock_sub26_1",
      "model_modeling_mixformer_sequential_ParallelBlock_sub27_1",
      "model_modeling_mixformer_sequential_ParallelBlock_sub28_1",
      "model_modeling_mixformer_sequential_ParallelBlock_sub29_1",
      "model_modeling_mixformer_sequential_ParallelBlock_sub30_1",
      "model_modeling_mixformer_sequential_ParallelBlock_sub31_1",
      "model_modeling_mixformer_sequential_ParallelBlock_sub32_1">>

\* lines 86-91: self.func_to_layer_id
func_to_layer_id == [layer \in 1..NumLayers |-> layer]

CausalLMHeadType == "model_modeling_mixformer_sequential_CausalLMHead_layers__1_1"

\* lines 95-96
uname(layer_id, name) == name \o <<"_">> \o NatToStr(layer_id)

\* lines 98-99: self.func_to_layer_id[node.op_type]
get_layer_id(node) ==
    func_to_layer_id[CHOOSE k \in 1..NumLayers : nodes_to_find[k] = node.op_type]

\* helper.make_node
make_node(op_type, inputs, outputs, name) ==
    [name |-> name, op_type |-> op_type, input |-> inputs, output |-> outputs,
     value |-> <<>>]

\* lines 42-44: ProcessGemmWFunc transposes a matrix, here its shape
ProcessGemmWFunc(dims) == <<dims[2], dims[1]>>

\* a tensor of graph.initializer: its name and its shape
Tensor(name, dims) == [name |-> name, dims |-> dims]

\* OnnxModel.get_initializer: the first tensor of the name among the
\* initializers, which are a list and may hold a name more than once
get_initializer(g, name) ==
    LET hits == {i \in 1..Len(g.initializer) : g.initializer[i].name = name}
    IN  IF hits = {} THEN [found |-> FALSE]
        ELSE [found |-> TRUE,
              tensor |-> g.initializer[CHOOSE i \in hits : \A j \in hits : i <= j]]

\* lines 101-113: the name of the tensor process_initializer adds
ProcessedName(initializer_name) == initializer_name \o <<"_","p","r","o","c","e","s","s","e","d">>

\* lines 101-113: process_initializer with ProcessGemmWFunc, the graph after it
\* (add_initializer appends the tensor, whether or not one of its name is
\* there already)
process_initializer(g, initializer_name) ==
    [g EXCEPT !.initializer =
        Append(@, Tensor(ProcessedName(initializer_name),
                         ProcessGemmWFunc(get_initializer(g, initializer_name).tensor.dims)))]

\* lines 115-118: the graph after add_fp32_value_info
add_fp32_value_info(g, name) ==
    [g EXCEPT !.value_info = Append(g.value_info, [name |-> name, elem_type |-> "FLOAT"])]

\* lines 236-245, in the order of the calls
ValueInfoNames ==
    <<Lit.ln_out, Lit.attn_out, Lit.matmul_out, Lit.add_out, Lit.fc1_w_out,
      Lit.fc1_b_out, Lit.new_gelu_out, Lit.fc2_w_out, Lit.fc2_b_out, Lit.residual_1_out>>

\* lines 139-145: the input slots whose initializers are processed
ProcessedSlots == <<6, 10, 12, 14>>

\* the hidden state read at slot 0 whatever the layer
HiddenSlotOfFirstLayer(layer_id) == 0

\* line 130: the slot of the hidden-state input
HiddenSlot(layer_id) == IF layer_id = 1 THEN 0 ELSE 2

\* lines 149-230: the replacement subgraph of the anchor `node`
subgraph_nodes(node) ==
    LET layer_id == get_layer_id(node)
        In(slot) == node.input[slot + 1]
        U(name) == uname(layer_id, name)
        i_hidden_states == In(HiddenSlot(layer_id))
        i_attn_mask == In(1)
        i_kv_cache == In(3)
        o_hidden_states == node.output[2]
        o_kv_cache == node.output[1]
        ln_weight == In(4)
        ln_bias == In(5)
        attn_qkv_weight == ProcessedName(In(6))
        attn_qkv_bias == In(7)
        attn_out_weight == ProcessedName(In(10))
        attn_out_bias == In(11)
        mlp_fc1_weight == ProcessedName(In(12))
        mlp_fc1_bias == In(13)
        mlp_fc2_weight == ProcessedName(In(14))
        mlp_fc2_bias == In(15)
    IN  <<make_node("LayerNormalization", <<i_hidden_states, ln_weight, ln_bias>>,
                    <<U(Lit.ln_out)>>, U(Lit.LayerNormalization)),
          make_node("Attention",
                    <<U(Lit.ln_out), attn_qkv_weight, attn_qkv_bias, i_attn_mask, i_kv_cache>>,
                    <<U(Lit.attn_out), o_kv_cache>>, U(Lit.Attention)),
          make_node("MatMul", <<U(Lit.attn_out), attn_out_weight>>,
                    <<U(Lit.matmul_out)>>, U(Lit.OutProj_MatMul)),
          make_node("Add", <<U(Lit.matmul_out), attn_out_bias>>,
                    <<U(Lit.add_out)>>, U(Lit.OutProj_Add)),
          make_node("MatMul", <<U(Lit.ln_out), mlp_fc1_weight>>,
                    <<U(Lit.fc1_w_out)>>, U(Lit.FC1_MatMul)),
          make_node("Add", <<U(Lit.fc1_w_out), mlp_fc1_bias>>,
                    <<U(Lit.fc1_b_out)>>, U(Lit.FC1_Bias)),
          make_node("FastGelu", <<U(Lit.fc1_b_out)>>,
                    <<U(Lit.new_gelu_out)>>, U(Lit.FastGelu)),
          make_node("MatMul", <<U(Lit.new_gelu_out), mlp_fc2_weight>>,
                    <<U(Lit.fc2_w_out)>>, U(Lit.FC2_MatMul)),
          make_node("Add", <<U(Lit.fc2_w_out), mlp_fc2_bias>>,
                    <<U(Lit.fc2_b_out)>>, U(Lit.FC2_Bias)),
          make_node("Add", <<U(Lit.add_out), U(Lit.fc2_b_out)>>,
                    <<U(Lit.residual_1_out)>>, U(Lit.Residual_Add_1)),
          make_node("Add", <<i_hidden_states, U(Lit.residual_1_out)>>,
                    <<o_hidden_states>>, U(Lit.Residual_Add_2))>>

\* lines 139-145: the calls of process_initializer in turn.  get_initializer
\* gives None for a name that is no initializer and to_array raises on it:
\* the tensors added by the calls before it stay in the graph
RECURSIVE ProcessInitializers(_, _, _)
ProcessInitializers(g, node, slots) ==
    IF slots = <<>> THEN [graph |-> g, raised |-> FALSE]
    ELSE IF ~get_initializer(g, node.input[Head(slots) + 1]).found
    THEN [graph |-> g, raised |-> TRUE]
    ELSE ProcessInitializers(process_initializer(g, node.input[Head(slots) + 1]),
                             node, Tail(slots))

\* lines 236-245: the graph after the ten calls of add_fp32_value_info
RECURSIVE AddValueInfos(_, _, _)
AddValueInfos(g, layer_id, names) ==
    IF names = <<>> THEN g
    ELSE AddValueInfos(add_fp32_value_info(g, uname(layer_id, Head(names))),
                       layer_id, Tail(names))

\* lines 120-248: what fuse_with_attn does to the graph
FissionGraphEffect(g, node) ==
    AddValueInfos(ProcessInitializers(g, node, ProcessedSlots).graph,
                  get_layer_id(node), ValueInfoNames)

\* line 78: node.input[0] = node.input[1]
RemoveInputDuplication(node) == [node EXCEPT !.input[1] = node.input[2]]

(***************************************************************************)
(* onnx_model_phi.py: the inputs and the steps of PhiOnnxModel.optimize.   *)
(***************************************************************************)
\* the edge names of the phi model and the names they are mapped to
Io ==
    [l_input_ids_ |-> <<"l", "_", "i", "n", "p", "u", "t", "_", "i", "d", "s", "_">>,
     l_attention_mask_ |-> <<"l", "_", "a", "t", "t", "e", "n", "t", "i", "o", "n", "_", "m", "a", "s", "k", "_">>,
     layers__1_1 |-> <<"l", "a", "y", "e", "r", "s", "_", "_", "1", "_", "1">>,
     kv_cache |-> <<"k", "v", "_", "c", "a", "c", "h", "e">>,
     kv_cache_ |-> <<"k", "v", "_", "c", "a", "c", "h", "e", "_">>,
     sub |-> <<"s", "u", "b">>,
     suffix_1 |-> <<"_", "1">>,
     past_ |-> <<"p", "a", "s", "t", "_">>,
     present_ |-> <<"p", "r", "e", "s", "e", "n", "t", "_">>,
     past_0 |-> <<"p", "a", "s", "t", "_", "0">>,
     logits |-> <<"l", "o", "g", "i", "t", "s">>,
     input_ids |-> <<"i", "n", "p", "u", "t", "_", "i", "d", "s">>,
     attention_mask |-> <<"a", "t", "t", "e", "n", "t", "i", "o", "n", "_", "m", "a", "s", "k">>]

\* line 33: range(32)
MappedLayers == 32

\* lines 31-38: IO_MAPPING, as the pairs of a key and its value
IoPairs ==
    {<<Io.kv_cache, Io.past_0>>, <<Io.layers__1_1, Io.logits>>,
     <<Io.l_input_ids_, Io.input_ids>>, <<Io.l_attention_mask_, Io.attention_mask>>}
    \cup {<<Io.kv_cache_ \o NatToStr(i), Io.past_ \o NatToStr(i)>> :
             i \in 0..(MappedLayers - 1)}
    \cup {<<Io.sub \o NatToStr(i + 1) \o Io.suffix_1, Io.present_ \o NatToStr(i)>> :
             i \in 0..(MappedLayers - 1)}

IO_MAPPING ==
    [k \in {p[1] : p \in IoPairs} |-> (CHOOSE p \in IoPairs : p[1] = k)[2]]

Hid(k) == <<"h">> \o NatToStr(k)

KvIn(k) == Io.kv_cache_ \o NatToStr(k)

KvOut(k) == Io.sub \o NatToStr(k) \o Io.suffix_1

Weight(slot, k) == <<"w">> \o NatToStr(slot) \o <<"_">> \o NatToStr(k)

\* the block at position k of the chain, an instance of the function of `layer`
BlockNode(k, layer, shared) ==
    [name   |-> <<"b", "l", "o", "c", "k">> \o NatToStr(k),
     op_type |-> nodes_to_find[layer],
     input  |-> [slot \in 1..16 |->
                   CASE slot - 1 = (IF layer = 1 THEN 0 ELSE 2) -> Hid(k - 1)
                     [] slot - 1 \in {0, 2} -> Io.l_input_ids_
                     [] slot - 1 = 1 -> Io.l_attention_mask_
                     [] slot - 1 = 3 -> KvIn(k)
                     [] slot - 1 = 10 /\ shared -> Weight(6, k)
                     [] OTHER -> Weight(slot - 1, k)],
     output |-> <<KvOut(k), Hid(k)>>,
     value  |-> <<>>]

HeadNode(k) ==
    [name   |-> <<"h", "e", "a", "d">>,
     op_type |-> CausalLMHeadType,
     input  |-> <<Io.l_input_ids_, Hid(k), <<"l", "m", "_", "w">>>>,
     output |-> <<Io.layers__1_1>>,
     value  |-> <<>>]

\* the formal inputs or outputs of a local function
Formal(prefix, n) == [i \in 1..n |-> <<prefix>> \o NatToStr(i - 1)]

\* the local function a block of `layer` is a call of: a body of two nodes
\* joined by an edge of its own
BlockFunction(layer) ==
    [input  |-> Formal("x", 16),
     output |-> Formal("y", 2),
     node   |-> <<make_node("Attn", <<Formal("x", 16)[HiddenSlot(layer) + 1], <<"x", "3">>>>,
                            <<<<"y", "0">>, <<"t">>>>, <<"a", "t", "t", "n">>),
                  make_node("Mlp", <<<<"t">>, <<"x", "4">>>>, <<<<"y", "1">>>>,
                            <<"m", "l", "p">>)>>]

\* the local function the head is a call of
HeadFunction ==
    [input  |-> Formal("x", 3),
     output |-> Formal("y", 1),
     node   |-> <<make_node("MatMul", <<<<"x", "1">>, <<"x", "2">>>>, <<<<"y", "0">>>>,
                            <<"p", "r", "o", "j">>)>>]

\* the local functions of a model with blocks of these layers
LocalFunctions(layers, head) ==
    [op_type \in {nodes_to_find[layers[k]] : k \in 1..Len(layers)}
                    \cup (IF head THEN {CausalLMHeadType} ELSE {}) |->
        IF op_type = CausalLMHeadType THEN HeadFunction
        ELSE BlockFunction(CHOOSE layer \in 1..NumLayers : nodes_to_find[layer] = op_type)]

\* the layers a block may be an instance of: the first, which reads the hidden
\* state at slot 0, a middle one and the last
LayerPool == {1, 2, NumLayers}

\* a value info of the graph: a name, an element type and a shape
ValueInfo(name, elem_type, shape) == [name |-> name, elem_type |-> elem_type, shape |-> shape]

KvShape == <<"2", "batch_size", "32", "past_seq_len", "80">>

\* a chain of blocks, with or without the head after it; `weights` tells
\* whether the blocks' weights are initializers, `missing` which of their
\* weight slots are not, `shared` whether a block reads at slot 10 the tensor
\* it reads at slot 6.  The graph declares its inputs, and as outputs the
\* logits (the last hidden state without the head) and then the kv caches.
\* `functions` are the local functions of the model the graph belongs to
PhiGraph(layers, head, weights, missing, shared) ==
    LET n == Len(layers)
        blocks == [k \in 1..n |-> BlockNode(k, layers[k], shared)]
        top == IF head THEN Io.layers__1_1 ELSE Hid(n)
        slots == [i \in 1..(12 * n) |-> [slot |-> 4 + ((i - 1) % 12), k |-> 1 + ((i - 1) \div 12)]]
        Present(w) == weights /\ w.slot \notin missing
        present == SelectSeq(slots, Present)
    IN  [node |-> blocks \o (IF head THEN <<HeadNode(n)>> ELSE <<>>),
         initializer |->
             [i \in 1..Len(present) |-> Tensor(Weight(present[i].slot, present[i].k), <<2, 3>>)]
             \o <<Tensor(<<"l", "m", "_", "w">>, <<2, 3>>)>>,
         value_info |-> <<>>,
         input |-> <<ValueInfo(Io.l_input_ids_, "INT64", <<"batch_size", "seq_len">>),
                     ValueInfo(Io.l_attention_mask_, "INT64", <<"batch_size", "seq_len">>),
                     ValueInfo(Hid(0), "FLOAT", <<"batch_size", "seq_len", "2560">>)>>
                     \o [k \in 1..n |-> ValueInfo(KvIn(k), "FLOAT16", KvShape)],
         output_info |-> <<ValueInfo(top, "FLOAT", <<"batch_size", "seq_len", "51200">>)>>
                     \o [k \in 1..n |-> ValueInfo(KvOut(k), "FLOAT16", KvShape)],
         output |-> {KvOut(k) : k \in 1..n} \cup {top},
         functions |-> LocalFunctions(layers, head),
         empty |-> <<>>]

\* the weight slots that may be missing: none, the second processed one, the
\* last processed one
MissingSlots == {{}, {10}, {14}}

PhiConfigs ==
    UNION { [layers : [1..n -> LayerPool], head : BOOLEAN, weights : {FALSE},
             missing : {{}}, shared : {FALSE}]
            \cup [layers : [1..n -> LayerPool], head : BOOLEAN, weights : {TRUE},
                  missing : MissingSlots, shared : {FALSE}]
            \cup [layers : [1..n -> LayerPool], head : BOOLEAN, weights : {TRUE},
                  missing : {{}}, shared : {TRUE}]
            : n \in 1..MaxBlocks }

\* part in name
Contains(name, part) ==
    \E i \in 1..(Len(name) - Len(part) + 1) : SubSeq(name, i, i + Len(part) - 1) = part

\* lines 267-290: one of the three tests on a graph input: a name holding
\* `part` is looked up in IO_MAPPING; [ok |-> FALSE] stands for KeyError
RenameInput(r, part, int32) ==
    IF ~r.ok \/ ~Contains(r.vi.name, part) THEN r
    ELSE IF r.vi.name \notin DOMAIN IO_MAPPING THEN [ok |-> FALSE, vi |-> r.vi]
    ELSE [ok |-> TRUE,
          vi |-> ValueInfo(IO_MAPPING[r.vi.name],
                           IF int32 THEN "INT32" ELSE r.vi.elem_type,
                           IF int32 THEN <<"batch_size", "seq_len">> ELSE KvShape)]

\* lines 266-291: the value info that takes the place of a graph input
new_input(vi) ==
    RenameInput(RenameInput(RenameInput([ok |-> TRUE, vi |-> vi],
                                        Io.attention_mask, TRUE),
                            Io.input_ids, TRUE),
                Io.kv_cache, FALSE)

\* lines 297-311: the value info that takes the place of the graph output at
\* position i (from 0): the first keeps its shape, the others get the shape
\* of a kv cache
new_output(vi, i) ==
    IF vi.name \notin DOMAIN IO_MAPPING THEN [ok |-> FALSE, vi |-> vi]
    ELSE [ok |-> TRUE,
          vi |-> ValueInfo(IO_MAPPING[vi.name], vi.elem_type,
                           IF i = 0 THEN vi.shape ELSE KvShape)]

\* lines 316-322: the names of a node's inputs or outputs after the mapping
RenameEdges(names) ==
    [i \in 1..Len(names) |->
        IF names[i] \in DOMAIN IO_MAPPING THEN IO_MAPPING[names[i]] ELSE names[i]]

\* lines 263-322: postprocess_io.  A KeyError among the inputs leaves the
\* graph as it was; one among the outputs comes after the inputs were
\* replaced
postprocess_io(g) ==
    LET ins == [i \in 1..Len(g.input) |-> new_input(g.input[i])]
        outs == [i \in 1..Len(g.output_info) |-> new_output(g.output_info[i], i - 1)]
    IN  IF \E i \in 1..Len(ins) : ~ins[i].ok THEN [graph |-> g, raised |-> TRUE]
        ELSE IF \E i \in 1..Len(outs) : ~outs[i].ok
        THEN [graph |-> [g EXCEPT !.input = [i \in 1..Len(ins) |-> ins[i].vi]],
              raised |-> TRUE]
        ELSE [graph |->
                 [g EXCEPT !.input = [i \in 1..Len(ins) |-> ins[i].vi],
                           !.output_info = [i \in 1..Len(outs) |-> outs[i].vi],
                           !.output = {outs[i].vi.name : i \in 1..Len(outs)},
                           !.node = [i \in 1..Len(g.node) |->
                                        [g.node[i] EXCEPT !.input = RenameEdges(@),
                                                          !.output = RenameEdges(@)]]],
              raised |-> FALSE]

\* a name of a function body at the call `call`, the c-th to be inlined: a
\* formal input or output stands for the edge the call binds it to (the empty
\* name when the call has none); any other name is made new to the graph,
\* here by the number of the call
BoundName(name, f, call, c) ==
    IF \E i \in 1..Len(f.input) : f.input[i] = name
    THEN (IF (CHOOSE i \in 1..Len(f.input) : f.input[i] = name) <= Len(call.input)
          THEN call.input[CHOOSE i \in 1..Len(f.input) : f.input[i] = name]
          ELSE <<>>)
    ELSE IF \E i \in 1..Len(f.output) : f.output[i] = name
    THEN (IF (CHOOSE i \in 1..Len(f.output) : f.output[i] = name) <= Len(call.output)
          THEN call.output[CHOOSE i \in 1..Len(f.output) : f.output[i] = name]
          ELSE <<>>)
    ELSE name \o <<"_", "_">> \o NatToStr(c)

\* the nodes that take the place of a call
InlinedBody(f, call, c) ==
    [i \in 1..Len(f.node) |->
        [name    |-> f.node[i].name \o <<"_", "_">> \o NatToStr(c),
         op_type |-> f.node[i].op_type,
         input   |-> [j \in 1..Len(f.node[i].input) |->
                         BoundName(f.node[i].input[j], f, call, c)],
         output  |-> [j \in 1..Len(f.node[i].output) |->
                         BoundName(f.node[i].output[j], f, call, c)],
         value   |-> f.node[i].value]]

\* the nodes of the graph, every call of a local function replaced in place
\* by the body of the function; c calls were inlined before
RECURSIVE InlineNodes(_, _, _)
InlineNodes(functions, nodes, c) ==
    IF nodes = <<>> THEN <<>>
    ELSE IF Head(nodes).op_type \in DOMAIN functions
    THEN InlinedBody(functions[Head(nodes).op_type], Head(nodes), c + 1)
           \o InlineNodes(functions, Tail(nodes), c + 1)
    ELSE <<Head(nodes)>> \o InlineNodes(functions, Tail(nodes), c)

\* line 334: inliner.inline_local_functions(self.model, False), of the onnx
\* package: the calls are inlined and the model keeps no local function.
\* The bodies here call no function themselves
inline_local_functions(g) ==
    [g EXCEPT !.node = InlineNodes(g.functions, g.node, 0), !.functions = <<>>]

\* Fusion.apply: for each search_op_type in turn, the nodes of that kind in
\* graph order
RECURSIVE AnchorsInSearchOrder(_, _)
AnchorsInSearchOrder(g, op_types) ==
    IF op_types = <<>> THEN <<>>
    ELSE get_nodes_by_op_type(g, {Head(op_types)})
           \o AnchorsInSearchOrder(g, Tail(op_types))

InitPhi ==
    /\ RewriterIdle
    /\ cfg \in PhiConfigs
    /\ graph = PhiGraph(cfg.layers, cfg.head, cfg.weights, cfg.missing, cfg.shared)
    /\ graph0 = graph
    /\ pc = "loaded"
    /\ log = <<>>
    /\ nodes_to_add = <<>>
    /\ nodes_to_remove = <<>>
    /\ node_name_to_graph_name = <<>>
    /\ prune_graph = FALSE
    /\ num_heads = 0
    /\ hidden_size = 0
    /\ num_heads_warning = TRUE
    /\ hidden_size_warning = TRUE
    /\ todo = <<>>
    /\ last = <<>>
    /\ fuse_layernorm = FALSE
    /\ opset_import = <<>>
    /\ modified = FALSE
    /\ available_suffix = 0
    /\ idx = 0
    /\ applied = <<>>
    /\ saved = <<>>
    /\ ret = "none"

\* lines 333-334: inline_model, a method a user of the class may call on the
\* loaded model or once optimize has returned or raised
InlineModel ==
    /\ UNCHANGED rewriterVars
    /\ pc \in {"loaded", "done", "error"}
    /\ graph' = inline_local_functions(graph)
    /\ UNCHANGED <<pc, graph0, cfg, log, fusionVars, qnnVars>>

\* lines 341-342: optimize is called; fission_transformer_block.apply() looks
\* for its anchors in the graph as it is then
Optimize ==
    /\ UNCHANGED rewriterVars
    /\ pc = "loaded"
    /\ todo' = AnchorsInSearchOrder(graph, nodes_to_find)
    /\ pc' = "fission"
    /\ UNCHANGED <<graph, graph0, cfg, log, nodes_to_add, nodes_to_remove,
                   node_name_to_graph_name, prune_graph, num_heads, hidden_size,
                   num_heads_warning, hidden_size_warning, last, qnnVars>>

\* Fusion.apply of fission_transformer_block: the next anchor is handed to
\* FissionTransformerBlockPhi.fuse, that is to fuse_with_attn (lines 120-256)
FuseFission ==
    /\ UNCHANGED rewriterVars
    /\ pc = "fission"
    /\ todo # <<>>
    /\ LET node == graph.node[Head(todo)]
       IN  IF ProcessInitializers(graph, node, ProcessedSlots).raised
           THEN \* to_array raises before anything is queued
                /\ graph' = ProcessInitializers(graph, node, ProcessedSlots).graph
                /\ pc' = "error"
                /\ last' = [pass |-> "fission", anchor |-> node.name, pre |-> Pending,
                            graph_before |-> graph, graph_after |-> graph',
                            raised |-> TRUE]
                /\ UNCHANGED <<nodes_to_add, nodes_to_remove,
                               node_name_to_graph_name, prune_graph>>
           ELSE /\ graph' = FissionGraphEffect(graph, node)
                /\ nodes_to_add' = nodes_to_add \o subgraph_nodes(node)
                /\ node_name_to_graph_name' =
                      [name \in DOMAIN node_name_to_graph_name
                                  \cup {m.name : m \in Range(subgraph_nodes(node))} |->
                          "this_graph"]
                /\ nodes_to_remove' = Append(nodes_to_remove, node.name)
                /\ prune_graph' = TRUE
                /\ last' = [pass |-> "fission", anchor |-> node.name, pre |-> Pending,
                            graph_before |-> graph, graph_after |-> graph',
                            raised |-> FALSE]
                /\ pc' = "fission"
    /\ todo' = Tail(todo)
    /\ UNCHANGED <<graph0, cfg, log, num_heads, hidden_size, num_heads_warning,
                   hidden_size_warning, qnnVars>>

\* the end of fission_transformer_block.apply(): the queued edits are applied
\* to the graph.  The lists of the fission pass stay as they are; the next
\* pass object, postprocess_causal_lm_head, has lists of its own, which its
\* fuse never writes
CommitFission ==
    /\ UNCHANGED rewriterVars
    /\ pc = "fission"
    /\ todo = <<>>
    /\ graph' = apply_edits(graph, Pending, FALSE)
    /\ pc' = "lm_head"
    /\ todo' = get_nodes_by_op_type(graph', {CausalLMHeadType})
    /\ UNCHANGED <<graph0, cfg, log, nodes_to_add, nodes_to_remove,
                   node_name_to_graph_name, prune_graph, num_heads, hidden_size,
                   num_heads_warning, hidden_size_warning, last, qnnVars>>

\* Fusion.apply of postprocess_causal_lm_head: the next anchor is handed to
\* PostProcessCausalLMHead.fuse (lines 71-78)
FuseLMHead ==
    /\ UNCHANGED rewriterVars
    /\ pc = "lm_head"
    /\ todo # <<>>
    /\ graph' = [graph EXCEPT !.node[Head(todo)] = RemoveInputDuplication(@)]
    /\ last' = [pass |-> "lm_head", anchor |-> graph.node[Head(todo)].name,
                pre |-> Pending, graph_before |-> graph, graph_after |-> graph',
                raised |-> FALSE]
    /\ todo' = Tail(todo)
    /\ UNCHANGED <<pc, graph0, cfg, log, nodes_to_add, nodes_to_remove,
                   node_name_to_graph_name, prune_graph, num_heads, hidden_size,
                   num_heads_warning, hidden_size_warning, qnnVars>>

\* the end of postprocess_causal_lm_head.apply(): nothing was queued
CommitLMHead ==
    /\ UNCHANGED rewriterVars
    /\ pc = "lm_head"
    /\ todo = <<>>
    /\ pc' = "skip_layer_norm"
    /\ UNCHANGED <<graph, graph0, cfg, log, fusionVars, qnnVars>>

\* lines 344-345: fuse_sln.apply() and fuse_bias_sln.apply().  The two passes
\* are defined in fusion_skiplayernorm, outside the sources; they are taken to
\* find nothing to fuse
ApplySkipLayerNorm ==
    /\ UNCHANGED rewriterVars
    /\ pc = "skip_layer_norm"
    /\ pc' = "postprocess"
    /\ UNCHANGED <<graph, graph0, cfg, log, fusionVars, qnnVars>>

\* lines 336-339, 347: postprocess() hands the model to postprocess_io
Postprocess ==
    /\ UNCHANGED rewriterVars
    /\ pc = "postprocess"
    /\ graph' = postprocess_io(graph).graph
    /\ pc' = IF postprocess_io(graph).raised THEN "error" ELSE "done"
    /\ UNCHANGED <<graph0, cfg, log, fusionVars, qnnVars>>

NextPhi ==
    \/ InlineModel
    \/ Optimize
    \/ FuseFission
    \/ CommitFission
    \/ FuseLMHead
    \/ CommitLMHead
    \/ ApplySkipLayerNorm
    \/ Postprocess

SpecPhi == InitPhi /\ [][NextPhi]_vars

(***************************************************************************)
(* Properties of the fusion passes.  `last` records the latest call of     *)
(* fuse: the anchor, the pending edit set and the graph before the call,   *)
(* the graph after it.                                                     *)
(***************************************************************************)
FuseCalled == last # <<>>

NodeNames(g) == {g.node[i].name : i \in 1..Len(g.node)}

IndexOf(g, name) == CHOOSE i \in 1..Len(g.node) : g.node[i].name = name

NodeOf(g, name) == g.node[IndexOf(g, name)]

\* C5: the matching step of a fusion pass does not mutate the graph: after a
\* call of fuse no node's inputs or outputs, no initializer and no value-info
\* entry differs from what it was before the call.
C5_FuseLeavesGraphUnchanged ==
    FuseCalled => last.graph_after = last.graph_before

\* C5, for FusionAttentionClip alone: until the commit the graph is the
\* loaded one
C5_ClipFuseLeavesGraphUnchanged ==
    (FuseCalled /\ last.pass = "clip" /\ pc = "fuse") => graph = graph0

\* the alternatives for the node before the anchor, in their priority order
Alternatives ==
    <<[op_type |-> "SkipLayerNormalization", slot |-> 1],
      [op_type |-> "SkipLayerNormalization", slot |-> 0],
      [op_type |-> "Add", slot |-> 0],
      [op_type |-> "Add", slot |-> 1]>>

\* what an alternative yields on anchor n of graph g, if it succeeds
Alternative(g, n, alt) ==
    LET parent == match_parent(g, n, alt.op_type, alt.slot)
        child == find_first_child_by_type(g, parent, "LayerNormalization")
    IN  IF parent = NoneNode THEN [ok |-> FALSE]
        ELSE IF alt.op_type = "SkipLayerNormalization"
        THEN [ok |-> TRUE, skip_input_index |-> alt.slot,
              root_input |-> g.node[parent].output[1]]
        ELSE IF child = NoneNode THEN [ok |-> FALSE]
        ELSE [ok |-> TRUE, skip_input_index |-> alt.slot,
              root_input |-> g.node[child].output[1]]

RECURSIVE FirstAlternative(_, _, _)
FirstAlternative(g, n, alts) ==
    IF alts = <<>> THEN [ok |-> FALSE]
    ELSE IF Alternative(g, n, Head(alts)).ok THEN Alternative(g, n, Head(alts))
    ELSE FirstAlternative(g, n, Tail(alts))

\* C6: fuse uses the first alternative, in the priority order, that succeeds
\* to set skip_input_index and root_input (with both inputs of the anchor
\* produced by SkipLayerNormalization nodes, the one at slot 1); if none
\* succeeds the anchor is skipped.
C6_FirstSuccessfulAlternativeIsUsed ==
    FuseCalled =>
        LET first == FirstAlternative(graph0, IndexOf(graph0, last.anchor), Alternatives)
        IN  IF first.ok
            THEN /\ last.result.skip_input_index = first.skip_input_index
                 /\ last.result.root_input = first.root_input
            ELSE /\ last.result.stage = "no_node_before"
                 /\ Pending = last.pre

\* C6 without the case of two SkipLayerNormalization parents
C6_FirstAlternativeUnlessBothSkipLayerNorm ==
    (FuseCalled /\ cfg.before # "slnBoth") => C6_FirstSuccessfulAlternativeIsUsed

\* the edges the Q, K and V MatMul of the loaded layer read
BranchRoots ==
    {NodeOf(graph0, m).input[1] : m \in {"matmul_q", "matmul_k", "matmul_v"}}

\* C7: fuse queues an Attention node only if input[0] of the Q, of the K and
\* of the V MatMul each equal root_input; if one differs, the call leaves
\* the pending edit set as it found it.
C7_SharedRootOrNothingQueued ==
    FuseCalled =>
        /\ nodes_to_add # last.pre.nodes_to_add =>
               BranchRoots = {last.result.root_input}
        /\ BranchRoots # {last.result.root_input} => Pending = last.pre

C7_Witness ==
    /\ FuseCalled
    /\ cfg.defect = "rootv"
    /\ cfg.before = "sln0"
    /\ last.result.root_input = "prev_norm"
    /\ NodeOf(graph0, "matmul_q").input[1] = "prev_norm"
    /\ NodeOf(graph0, "matmul_v").input[1] = "other"
    /\ Pending = last.pre
    /\ pc = "fuse"

\* C8: a successful call of fuse queues exactly one node, reading the root
\* edge and writing output[0] of the Reshape after the qkv Transpose,
\* registers its name, and queues exactly that Reshape and the Transpose for
\* removal.
C8_OneReplacementWiredToRootAndFinalOutput ==
    (FuseCalled /\ pc = "fuse" /\ Pending # last.pre) =>
        /\ Len(nodes_to_add) = Len(last.pre.nodes_to_add) + 1
        /\ LET new_node == nodes_to_add[Len(nodes_to_add)]
           IN  /\ new_node.op_type = "Attention"
               /\ new_node.input[1] = RootEdge(cfg)
               /\ new_node.input[1] = last.result.root_input
               /\ new_node.output = NodeOf(graph0, "reshape_qkv").output
               /\ new_node.name \notin NodeNames(graph0)
               /\ DOMAIN node_name_to_graph_name =
                      DOMAIN last.pre.node_name_to_graph_name \cup {new_node.name}
        /\ nodes_to_remove = last.pre.nodes_to_remove \o <<"reshape_qkv", "transpose_qkv">>
        /\ NodeOf(graph0, "transpose_qkv").output[1] = NodeOf(graph0, "reshape_qkv").input[1]
        /\ prune_graph

C8_Witness ==
    /\ FuseCalled
    /\ pc = "fuse"
    /\ cfg.before = "add1"
    /\ Len(nodes_to_add) = 1
    /\ nodes_to_add[1].input[1] = "emb_norm"
    /\ nodes_to_add[1].output = <<"ctx_out">>
    /\ nodes_to_remove = <<"reshape_qkv", "transpose_qkv">>

\* the nodes of the attention subgraph that the Attention node replaces
ConsumedNames ==
    {"matmul_q", "add_q", "mul_q", "reshape_q", "transpose_q", "reshape_q2",
     "matmul_k", "add_k", "reshape_k", "transpose_k", "reshape_k2", "transpose_k2",
     "matmul_qk", "reshape_qk", "add_mask", "reshape_qk2", "softmax",
     "matmul_v", "add_v", "reshape_v", "transpose_v", "reshape_v2",
     "matmul_qkv", "reshape_ctx", "transpose_qkv", "reshape_qkv"}

\* the shape constant of the loaded layer resolves to one positive value
Resolves(source) ==
    /\ source.kind \in {"init", "node"}
    /\ Len(source.v) = 1
    /\ source.v[1] > 0

Detectable(c) == c.shape = "concat4" /\ Resolves(c.nh) /\ Resolves(c.hs)

\* the pair the claim expects for the loaded layer
ExpectedHeads(c) ==
    IF Detectable(c)
    THEN [num_heads |-> c.nh.v[1], hidden_size |-> c.nh.v[1] * c.hs.v[1]]
    ELSE [num_heads |-> c.num_heads, hidden_size |-> c.hidden_size]

\* the loaded layer is an instance of the pattern of the pass
MatchesPattern(c) ==
    /\ c.before \in {"sln1", "sln0", "sln1_ln", "add0", "add1"}
    /\ c.defect = "ok"
    /\ c.mask \in {"concat", "expand"}
    /\ ExpectedHeads(c).num_heads > 0
    /\ ExpectedHeads(c).hidden_size > 0
    /\ ExpectedHeads(c).hidden_size % ExpectedHeads(c).num_heads = 0

\* the nodes from which a graph output is reachable
RECURSIVE ReachingOutputs(_, _)
ReachingOutputs(g, edges) ==
    LET more == edges \cup UNION {Range(g.node[i].input) :
                                    i \in {j \in 1..Len(g.node) :
                                             Range(g.node[j].output) \cap edges # {}}}
    IN  IF more = edges
        THEN {g.node[j].name : j \in {k \in 1..Len(g.node) :
                                        Range(g.node[k].output) \cap edges # {}}}
        ELSE ReachingOutputs(g, more)

\* C9: after the pass has been applied to a graph whose layer matches the
\* pattern, the graph holds the Attention node and none of the consumed
\* nodes is in it or reaches a graph output, although only two of them were
\* queued for removal.
C9_ConsumedNodesGoneAfterCommit ==
    (pc = "done" /\ MatchesPattern(cfg)) =>
        /\ \E i \in 1..Len(graph.node) :
               /\ graph.node[i].op_type = "Attention"
               /\ graph.node[i].name \in ReachingOutputs(graph, graph.output)
        /\ Len(get_nodes_by_op_type(graph, {"Attention"})) = 1
        /\ NodeNames(graph) \cap ConsumedNames = {}
        /\ ReachingOutputs(graph, graph.output) \cap ConsumedNames = {}
        /\ ConsumedNames \subseteq NodeNames(graph0)
        /\ Len(last.result.remove) = 2

C9_Witness ==
    /\ pc = "done"
    /\ MatchesPattern(cfg)
    /\ cfg.before = "sln1"
    /\ cfg.mask = "expand"
    /\ NodeNames(graph) = {"prev_sln", "Attention_0", "matmul_o", "add_o", "sln"}

\* C10: get_num_heads_and_hidden_size returns the hints exactly when the
\* detection from the graph fails, and the detected pair
\* (num_heads, num_heads * head_size) whenever both constants resolve to
\* single positive values, also when the hints say otherwise.
C10_HintsOnlyWhenDetectionFails ==
    (FuseCalled /\ last.result.heads_called) =>
        /\ last.result.heads.detected = Detectable(cfg)
        /\ last.result.heads.num_heads = ExpectedHeads(cfg).num_heads
        /\ last.result.heads.hidden_size = ExpectedHeads(cfg).hidden_size

C10_Witness ==
    /\ FuseCalled
    /\ last.result.heads_called
    /\ Detectable(cfg)
    /\ cfg.nh.kind = "node"
    /\ cfg.num_heads > 0
    /\ cfg.num_heads # cfg.nh.v[1]
    /\ cfg.hidden_size > 0
    /\ cfg.hidden_size # cfg.nh.v[1] * cfg.hs.v[1]
    /\ last.result.heads.num_heads = cfg.nh.v[1]
    /\ last.result.heads.hidden_size = cfg.nh.v[1] * cfg.hs.v[1]
    /\ log = <<"num_heads", "hidden_size">>

\* C10, the other way: a constant that is not positive leaves the hints
C10_WitnessFallback ==
    /\ FuseCalled
    /\ last.result.heads_called
    /\ cfg.shape = "concat4"
    /\ cfg.nh = [kind |-> "init", v |-> <<0>>]
    /\ last.result.heads.num_heads = cfg.num_heads
    /\ cfg.num_heads = MaxDim

\* how often a warning is in the log
Count(seq, x) == Cardinality({k \in 1..Len(seq) : seq[k] = x})

\* the detected head count of a layer contradicts a positive hint
HeadsConflict(layer) ==
    /\ Detectable(layer)
    /\ cfg.num_heads > 0
    /\ ExpectedHeads(layer).num_heads # cfg.num_heads

\* the detected hidden size of a layer contradicts a positive hint
HiddenConflict(layer) ==
    /\ Detectable(layer)
    /\ cfg.hidden_size > 0
    /\ ExpectedHeads(layer).hidden_size # cfg.hidden_size

\* C11: over the anchors one FusionAttentionClip instance processes, each of
\* the two warnings is logged at most once, on the first anchor whose
\* detected value contradicts a positive hint; a later contradicting
\* detection is still the value returned, without a warning.
C11_WarnOnce ==
    /\ Count(log, "num_heads") <= 1
    /\ Count(log, "hidden_size") <= 1
    /\ (FuseCalled /\ last.anchor = "sln") =>
           /\ last.result.heads_called
           /\ last.result.heads.warn_num_heads = HeadsConflict(FirstLayer(cfg))
           /\ last.result.heads.warn_hidden_size = HiddenConflict(FirstLayer(cfg))
    /\ (FuseCalled /\ last.anchor = "sln_2") =>
           /\ last.result.heads_called
           /\ last.result.heads.warn_num_heads =
                  (HeadsConflict(SecondLayer(cfg)) /\ ~HeadsConflict(FirstLayer(cfg)))
           /\ last.result.heads.warn_hidden_size =
                  (HiddenConflict(SecondLayer(cfg)) /\ ~HiddenConflict(FirstLayer(cfg)))
           /\ Detectable(SecondLayer(cfg)) =>
                  /\ last.result.heads.num_heads = cfg.nh2.v[1]
                  /\ last.result.heads.hidden_size = cfg.nh2.v[1] * cfg.hs2.v[1]
           /\ Count(log, "num_heads") =
                  (IF HeadsConflict(FirstLayer(cfg)) \/ HeadsConflict(SecondLayer(cfg))
                   THEN 1 ELSE 0)
           /\ Count(log, "hidden_size") =
                  (IF HiddenConflict(FirstLayer(cfg)) \/ HiddenConflict(SecondLayer(cfg))
                   THEN 1 ELSE 0)

C11_Witness ==
    /\ FuseCalled
    /\ last.anchor = "sln_2"
    /\ HeadsConflict(FirstLayer(cfg))
    /\ HeadsConflict(SecondLayer(cfg))
    /\ HiddenConflict(FirstLayer(cfg))
    /\ HiddenConflict(SecondLayer(cfg))
    /\ log = <<"num_heads", "hidden_size">>
    /\ ~num_heads_warning
    /\ ~hidden_size_warning
    /\ last.result.heads.num_heads = cfg.nh2.v[1]
    /\ last.result.heads.num_heads # cfg.num_heads
    /\ last.result.stage = "fused"
    /\ Len(nodes_to_add) = 2

\* C12: a call of fuse on an anchor whose layer does not match the pattern
\* (no node before the anchor, a chain or the causal mask unmatched, another
\* root, no usable head count, no Attention node created) leaves
\* nodes_to_add, nodes_to_remove, node_name_to_graph_name and prune_graph as
\* they were, and raises no error.
C12_NoMatchIsNoOp ==
    /\ pc # "error"
    /\ (FuseCalled /\ pc = "fuse" /\ ~(last.anchor = "sln" /\ MatchesPattern(cfg))) =>
           /\ Pending = last.pre
           /\ last.result.add = <<>>
           /\ last.result.remove = <<>>
    /\ (FuseCalled /\ pc = "fuse" /\ last.result.stage # "fused") => Pending = last.pre

C12_Witness ==
    /\ FuseCalled
    /\ pc = "fuse"
    /\ last.anchor = "sln"
    /\ cfg.before = "add0"
    /\ cfg.defect = "ok"
    /\ cfg.mask = "absent"
    /\ Detectable(cfg)
    /\ last.result.stage = "no_causal_mask"
    /\ last.result.heads_called
    /\ Pending = last.pre
    /\ nodes_to_add = <<>>
    /\ nodes_to_remove = <<>>
    /\ ~prune_graph

\* the nodes the latest call of fuse_with_attn queued
Queued == SubSeq(nodes_to_add, Len(last.pre.nodes_to_add) + 1, Len(nodes_to_add))

FissionCalled == FuseCalled /\ pc = "fission" /\ last.pass = "fission" /\ ~last.raised

\* C13: the nodes queued by one application of FissionTransformerBlockPhi
\* have pairwise different names and pairwise different output edges,
\* whatever the graph and its anchors.
C13_QueuedNamesUnique ==
    pc = "fission" =>
        \A i, j \in 1..Len(nodes_to_add) :
            i # j => /\ nodes_to_add[i].name # nodes_to_add[j].name
                     /\ Range(nodes_to_add[i].output) \cap Range(nodes_to_add[j].output) = {}

\* C13 for graphs whose blocks are instances of different functions
C13_UniqueIfLayersDiffer ==
    (\A i, j \in DOMAIN cfg.layers : i # j => cfg.layers[i] # cfg.layers[j])
        => C13_QueuedNamesUnique

\* the edges between the queued nodes
InternalEdges(anchor) == OutputsOf(Queued) \ Range(anchor.output)

\* C14: the 11 nodes queued for an anchor are in topological order, every
\* internal edge has one producer and a consumer among them, they produce
\* the anchor's two outputs (the first by Attention, the second by the last
\* Add), the hidden state is read from slot 0 of the anchor for layer 1 and
\* from slot 2 otherwise, and the anchor is queued for removal once.
C14_ReplacementSubgraphConsistent ==
    FissionCalled =>
        LET anchor == NodeOf(graph0, last.anchor)
            k == IndexOf(graph0, last.anchor)
            hidden == anchor.input[IF cfg.layers[k] = 1 THEN 1 ELSE 3]
        IN  /\ Len(Queued) = 11
            /\ \A i \in 1..11 : \A e \in Range(Queued[i].input) :
                   e \in OutputsOf(Queued) => \E j \in 1..(i - 1) : e \in Range(Queued[j].output)
            /\ \A e \in OutputsOf(Queued) :
                   Cardinality({i \in 1..11 : e \in Range(Queued[i].output)}) = 1
            /\ \A e \in InternalEdges(anchor) :
                   \E i \in 1..11 : e \in Range(Queued[i].input)
            /\ Cardinality(InternalEdges(anchor)) = 10
            /\ OutputsOf(Queued) = InternalEdges(anchor) \cup Range(anchor.output)
            /\ Queued[2].op_type = "Attention"
            /\ Queued[2].output[2] = anchor.output[1]
            /\ Queued[11].op_type = "Add"
            /\ Queued[11].output = <<anchor.output[2]>>
            /\ hidden = Hid(k - 1)
            /\ Queued[1].input[1] = hidden
            /\ Queued[11].input[1] = hidden
            /\ Count(nodes_to_remove, last.anchor) = 1
            /\ Len(nodes_to_remove) = Len(last.pre.nodes_to_remove) + 1

C14_Witness ==
    /\ FissionCalled
    /\ cfg.layers = <<1, NumLayers>>
    /\ last.anchor = <<"b", "l", "o", "c", "k", "2">>
    /\ Len(nodes_to_add) = 22
    /\ Queued[1].input[1] = <<"h", "1">>
    /\ Queued[1].name = <<"L", "a", "y", "e", "r", "N", "o", "r", "m", "a", "l", "i", "z", "a", "t", "i", "o", "n", "_", "3", "2">>
    /\ Len(nodes_to_remove) = 2

\* the qk chain of the loaded layer can be followed from the anchor
QkChainPresent(c) ==
    /\ c.before \in {"sln1", "sln0", "sln1_ln", "add0", "add1"}
    /\ c.defect \notin {"qkv", "v", "qk"}
    /\ ~(c.mask = "reshape" /\ c.mask_slot = 0)

\* C15: the assertion of fuse never fails: when the qk chain matches, one
\* slot index has been recorded, the slot of the mask Add where the Reshape
\* of the scores was found, and causal_mask_input_index is the other slot of
\* that Add; without a match fuse returns before the assertion (the list then
\* holds what the wildcard steps before the failing step appended).
C15_AssertionHolds ==
    /\ pc # "error"
    /\ (FuseCalled /\ last.anchor = "sln") =>
           LET add_mask == NodeOf(graph0, "add_mask")
               indices == last.result.add_mask_indices
           IN  /\ QkChainPresent(cfg) =>
                      /\ last.result.stage \notin
                             {"no_node_before", "no_qkv", "no_v", "no_qk", "assertion_error"}
                      /\ Len(indices) = 1
                      /\ indices[1] = 1 - cfg.mask_slot
                      /\ add_mask.input[indices[1] + 1] = "qk_rs"
                      /\ 1 - indices[1] \in {0, 1}
                      /\ add_mask.input[(1 - indices[1]) + 1] = "mask"
               /\ ~QkChainPresent(cfg) =>
                      /\ last.result.stage \in {"no_node_before", "no_qkv", "no_v", "no_qk"}
                      /\ last.result.stage # "assertion_error"
               /\ last.result.stage \in {"no_node_before", "no_qkv", "no_v"} =>
                      indices = <<>>
               /\ last.result.stage = "no_qk" =>
                      indices = (IF cfg.defect # "qk" /\ cfg.mask = "reshape" /\ cfg.mask_slot = 0
                                 THEN <<0>> ELSE <<>>)

C15_Witness ==
    /\ FuseCalled
    /\ last.anchor = "sln"
    /\ cfg.mask_slot = 0
    /\ cfg.mask = "expand"
    /\ NodeOf(graph0, "add_mask").input = <<"mask", "qk_rs">>
    /\ last.result.add_mask_indices = <<1>>
    /\ last.result.stage = "fused"

\* C15: a qk chain that breaks behind the wildcard step returns before the
\* assertion, with the slot that step found left in add_mask_indices
C15_WitnessNoMatch ==
    /\ FuseCalled
    /\ last.anchor = "sln"
    /\ cfg.mask = "reshape"
    /\ cfg.mask_slot = 0
    /\ last.result.stage = "no_qk"
    /\ last.result.add_mask_indices = <<0>>

\* C15: with a Reshape on either side of the mask Add, the lower slot is the
\* one followed
C15_WitnessTwoReshapes ==
    /\ FuseCalled
    /\ last.anchor = "sln"
    /\ cfg.mask = "reshape"
    /\ cfg.mask_slot = 1
    /\ cfg.defect = "ok"
    /\ last.result.add_mask_indices = <<0>>
    /\ last.result.stage = "no_causal_mask"

(***************************************************************************)
(* rewriter.py: rewrite_cpu_provider.  A line of the provider file is a    *)
(* record: how it starts (a class declaration, a registration, anything    *)
(* else), the macro it holds, the comma-separated arguments after it (as   *)
(* sequences of characters) and the mark it ends with.                     *)
(***************************************************************************)
\* line 123: the opset a latest version is extended to
Unlimited == 9999

\* lines 83-90, in the order in which process_lines looks for them
onnx_op == "ONNX_OPERATOR_KERNEL_CLASS_NAME"

onnx_typed_op == "ONNX_OPERATOR_TYPED_KERNEL_CLASS_NAME"

onnx_versioned_op == "ONNX_OPERATOR_VERSIONED_KERNEL_CLASS_NAME"

onnx_versioned_typed_op == "ONNX_OPERATOR_VERSIONED_TYPED_KERNEL_CLASS_NAME"

\* a kernel: its domain, its version range, whether it is typed
Kernel(domain, opset_from, opset_to, typed) ==
    [domain |-> domain, opset_from |-> opset_from, opset_to |-> opset_to, typed |-> typed]

MacroOf(k) ==
    IF k.opset_from = k.opset_to
    THEN (IF k.typed THEN onnx_typed_op ELSE onnx_op)
    ELSE (IF k.typed THEN onnx_versioned_typed_op ELSE onnx_versioned_op)

\* the arguments of the macro: provider, domain, version(s), [type,] name
ArgsOf(k) ==
    <<<<"k", "C", "p", "u">>, k.domain>>
    \o (IF k.opset_from = k.opset_to THEN <<NatToStr(k.opset_from)>>
        ELSE <<NatToStr(k.opset_from), NatToStr(k.opset_to)>>)
    \o (IF k.typed THEN <<<<"f", "l", "o", "a", "t">>>> ELSE <<>>)
    \o <<<<"A", "b", "s">>>>

ClassLine(k) ==
    [start |-> "class ONNX_OPERATOR", macro |-> MacroOf(k), args |-> ArgsOf(k), end |-> ");"]

BuildLine(k) ==
    [start |-> "BuildKernelCreateInfo<ONNX", macro |-> MacroOf(k), args |-> ArgsOf(k),
     end |-> ")>,"]

\* a statement written on two lines: the first ends with a comma
ClassOpen(k) ==
    [start |-> "class ONNX_OPERATOR", macro |-> MacroOf(k),
     args |-> SubSeq(ArgsOf(k), 1, 2), end |-> ""]

BuildOpen(k) ==
    [start |-> "BuildKernelCreateInfo<ONNX", macro |-> MacroOf(k),
     args |-> SubSeq(ArgsOf(k), 1, 2), end |-> ""]

\* the second line is indented
ClassClose(k) ==
    [start |-> "", macro |-> "",
     args |-> [SubSeq(ArgsOf(k), 3, Len(ArgsOf(k))) EXCEPT ![1] = <<" ", " ">> \o @],
     end |-> ");"]

BuildClose(k) ==
    [start |-> "", macro |-> "",
     args |-> [SubSeq(ArgsOf(k), 3, Len(ArgsOf(k))) EXCEPT ![1] = <<" ", " ">> \o @],
     end |-> ")>,"]

\* a blank line
OtherLine == [start |-> "", macro |-> "", args |-> <<>>, end |-> ""]

\* a registration whose version is not a number
BadVersionLine ==
    [start |-> "BuildKernelCreateInfo<ONNX", macro |-> onnx_op,
     args |-> <<<<"k", "C", "p", "u">>, <<"k", "O", "n", "n", "x", "D", "o", "m", "a", "i", "n">>,
                <<"v">>, <<"A", "b", "s">>>>,
     end |-> ")>,"]

\* lines 192 and 205: the marks that end a statement, character by character
ClassEnd == <<")", ";">>

BuildEnd == <<")", ">", ",">>

RECURSIVE Commas(_)
\* ','.join(args)
Commas(args) ==
    IF args = <<>> THEN <<>>
    ELSE IF Len(args) = 1 THEN args[1]
    ELSE args[1] \o <<",">> \o Commas(Tail(args))

\* line 176: a line as readlines() returns it, character by character.  The
\* text a statement starts with ("class " or "BuildKernelCreateInfo<", with
\* the first letters of the macro after it) and the name of the macro are one
\* element each; a line that ends with no mark ends with the comma after its
\* last argument
Text(l) ==
    (IF l.start = "" THEN <<>> ELSE <<l.start, l.macro, "(">>)
    \o Commas(l.args)
    \o (IF l.end = ");" THEN ClassEnd
        ELSE IF l.end = ")>," THEN BuildEnd
        ELSE IF l.args # <<>> THEN <<",">>
        ELSE <<>>)
    \o <<"\n">>

\* str.endswith
EndsWith(t, mark) ==
    /\ Len(t) >= Len(mark)
    /\ SubSeq(t, Len(t) - Len(mark) + 1, Len(t)) = mark

\* lines 142-147: the offset of the line that ends the statement, 0 when the
\* file ends first (lines[offset] raises IndexError)
EndOffset(ls, offset, end_mark) ==
    LET hits == {j \in offset..Len(ls) : EndsWith(StripSpace(Text(ls[j])), end_mark)}
    IN  IF hits = {} THEN 0 ELSE CHOOSE j \in hits : \A h \in hits : j <= h

RECURSIVE CodeLine(_, _, _)
\* line 148: ''.join([line.strip() for line in lines_to_process])
CodeLine(ls, a, b) ==
    IF a > b THEN <<>>
    ELSE StripSpace(Text(ls[a])) \o CodeLine(ls, a + 1, b)

\* list.index(x) and str.index(x) for a text x that is one element, counted
\* from 1
FirstIndex(list, x) ==
    CHOOSE i \in 1..Len(list) : list[i] = x /\ \A j \in 1..(i - 1) : list[j] # x

RECURSIVE Split(_)
\* str.split(',')
Split(t) ==
    LET commas == {i \in 1..Len(t) : t[i] = ","}
    IN  IF commas = {} THEN <<t>>
        ELSE LET i == CHOOSE i \in commas : \A j \in commas : i <= j
             IN  <<SubSeq(t, 1, i - 1)>> \o Split(SubSeq(t, i + 1, Len(t)))

\* lines 152-153 and the like: [arg.strip() for arg in
\* code_line[trim_at: -len(end_mark)].split(',')], trim_at being the end of
\* the first occurrence of the macro
ArgsAfter(code_line, macro, end_mark) ==
    LET trimmed == SubSeq(code_line, FirstIndex(code_line, macro) + 1,
                          Len(code_line) - Len(end_mark))
        args == Split(trimmed)
    IN  [i \in 1..Len(args) |-> StripSpace(args[i])]

\* args[-k]
FromEnd(args, k) == args[Len(args) - k + 1]

\* lines 153-154 and the like: the call of the callback, [ok |-> FALSE] when
\* an argument is missing (IndexError) or int() fails (ValueError)
Call(args, from_at, to_at, domain_at) ==
    IF Len(args) < domain_at THEN [found |-> TRUE, ok |-> FALSE]
    ELSE LET f == ParseInt(FromEnd(args, from_at))
             t == ParseInt(FromEnd(args, to_at))
         IN  IF ~f.ok \/ ~t.ok THEN [found |-> TRUE, ok |-> FALSE]
             ELSE [found |-> TRUE, ok |-> TRUE, op_type |-> FromEnd(args, 1),
                   opset_from |-> f.v, opset_to |-> t.v,
                   domain |-> FromEnd(args, domain_at)]

\* lines 148-169: what process_lines hands to the callback for the statement
\* on lines a..b that ends with end_mark; the macros are looked for in the
\* order of the source
process_lines(ls, a, b, end_mark) ==
    LET code_line == CodeLine(ls, a, b)
    IN  IF onnx_op \in Range(code_line)
        THEN Call(ArgsAfter(code_line, onnx_op, end_mark), 2, 2, 3)
        ELSE IF onnx_typed_op \in Range(code_line)
        THEN Call(ArgsAfter(code_line, onnx_typed_op, end_mark), 3, 3, 4)
        ELSE IF onnx_versioned_op \in Range(code_line)
        THEN Call(ArgsAfter(code_line, onnx_versioned_op, end_mark), 3, 2, 4)
        ELSE IF onnx_versioned_typed_op \in Range(code_line)
        THEN Call(ArgsAfter(code_line, onnx_versioned_typed_op, end_mark), 4, 3, 5)
        ELSE [found |-> FALSE, ok |-> TRUE]

\* lines 94-113
fill_version_map(vm, op_type, opset_from, opset_to, domain) ==
    LET key == <<op_type, domain>>
        fresh == IF opset_from < opset_to THEN <<opset_from, opset_to>> ELSE <<opset_from>>
        with_from == IF opset_from \notin Range(vm[key]) THEN Append(vm[key], opset_from)
                     ELSE vm[key]
        with_to == IF opset_to \notin Range(with_from) THEN Append(with_from, opset_to)
                   ELSE with_from
    IN  [k \in DOMAIN vm \cup {key} |->
            IF k # key THEN vm[k]
            ELSE IF key \in DOMAIN vm THEN with_to
            ELSE fresh]

\* the opsets with which an op of a domain is referred to
Referred(ops, op_type, domain) ==
    {t[3] : t \in {x \in ops : x[1] = op_type /\ x[2] = domain}}

\* lines 120-126: the end of the version range need_comment looks at
ExtendedTo(list, opset_from, opset_to) ==
    LET opset_to_index == FirstIndex(list, opset_to)
    IN  IF opset_to_index = Len(list) THEN Unlimited
        ELSE IF opset_from = opset_to THEN list[opset_to_index + 1]
        ELSE opset_to

\* lines 116-132: [ok |-> FALSE] when version_map has no entry for the op and
\* domain (KeyError) or the entry lacks opset_to (ValueError)
need_comment(ops, vm, op_type, opset_from, opset_to, domain) ==
    IF Referred(ops, op_type, domain) = {} THEN [ok |-> TRUE, disabled |-> TRUE]
    ELSE IF <<op_type, domain>> \notin DOMAIN vm THEN [ok |-> FALSE]
    ELSE IF opset_to \notin Range(vm[<<op_type, domain>>]) THEN [ok |-> FALSE]
    ELSE [ok |-> TRUE,
          disabled |->
              ~ \E opset \in Referred(ops, op_type, domain) :
                    /\ opset_from <= opset
                    /\ opset <= ExtendedTo(vm[<<op_type, domain>>], opset_from, opset_to)]

\* only the first line of a disabled statement is commented out
WriteFirstLineCommented(ls, a, b, disabled) ==
    [j \in 1..(b - a + 1) |-> [line |-> ls[a + j - 1], commented |-> disabled /\ j = 1]]

\* lines 195-196, 208-213: the lines a..b as written, all commented out or none
WriteStatement(ls, a, b, disabled) ==
    [j \in 1..(b - a + 1) |-> [line |-> ls[a + j - 1], commented |-> disabled]]

(***************************************************************************)
(* rewrite_cpu_provider: the inputs and the steps of the main loop.        *)
(***************************************************************************)
Onnx == <<"k", "O", "n", "n", "x", "D", "o", "m", "a", "i", "n">>

Ml == <<"k", "M", "L", "D", "o", "m", "a", "i", "n">>

\* the kernels of the op Abs a file may declare and register: one for each
\* of the four macros, and one whose two versions are written the higher
\* first
Kernels ==
    {Kernel(Onnx, 1, 1, FALSE), Kernel(Onnx, 2, 2, TRUE), Kernel(Onnx, 1, 2, FALSE),
     Kernel(Ml, 1, 3, TRUE), Kernel(Ml, 3, 1, FALSE)}

\* a registration whose macro has no provider argument: the domain is its
\* first argument
NoProviderLine == [BuildLine(Kernel(Onnx, 1, 1, FALSE)) EXCEPT !.args = Tail(@)]

\* a line written with blanks around its arguments: spaces, form feeds, tabs,
\* file separators (U+001C), which str.strip() removes and int() rejects
Spaced(l) ==
    [l EXCEPT !.args = [i \in 1..Len(l.args) |->
                           (IF i % 2 = 1 THEN <<" ">> ELSE <<"\f", " ">>)
                             \o l.args[i]
                             \o (IF i % 3 = 0 THEN <<"">>
                                 ELSE IF i % 3 = 1 THEN <<>> ELSE <<"\t">>)]]

\* the kernel whose lines are written with blanks
SpacedKernel == Kernel(Ml, 1, 3, TRUE)

\* the kernel whose statements may be written on two lines
SplitKernel == Kernel(Onnx, 1, 1, FALSE)

\* the lines of a file; a statement may be written on two lines
Lines ==
    {IF k = SpacedKernel THEN Spaced(ClassLine(k)) ELSE ClassLine(k) : k \in Kernels}
    \cup {IF k = SpacedKernel THEN Spaced(BuildLine(k)) ELSE BuildLine(k) : k \in Kernels}
    \cup {ClassOpen(SplitKernel), ClassClose(SplitKernel),
          BuildOpen(SplitKernel), BuildClose(SplitKernel),
          OtherLine, BadVersionLine, NoProviderLine}

Files == UNION {[1..n -> Lines] : n \in 0..MaxStatements}

\* the kernel declared with its higher version first
HigherFirstKernel == Kernel(Ml, 3, 1, FALSE)

\* the lines of the files on which the loop is followed statement by
\* statement: statements on one line and on two, with versions in either
\* order, with blanks, with a version that is no number, and a blank line
StatementLines ==
    {ClassLine(HigherFirstKernel), BuildLine(HigherFirstKernel),
     Spaced(ClassLine(SpacedKernel)), ClassLine(SplitKernel),
     ClassOpen(SplitKernel), ClassClose(SplitKernel),
     BuildOpen(SplitKernel), BuildClose(SplitKernel), BuildLine(SplitKernel),
     BadVersionLine, OtherLine}

StatementFiles == UNION {[1..n -> StatementLines] : n \in 0..MaxStatements}

\* what extract_ops_from_model and extract_ops_from_csv found
OperatorSets ==
    {{}, {<<<<"A", "b", "s">>, Onnx, 1>>}, {<<<<"A", "b", "s">>, Onnx, 2>>},
     {<<<<"A", "b", "s">>, Onnx, 1>>, <<<<"A", "b", "s">>, Ml, 3>>}}

\* the state when the loop starts on one of the files
InitOn(files) ==
    /\ lines \in files
    /\ operators \in OperatorSets
    /\ version_map = <<>>
    /\ line_offset = 1
    /\ file_to_write = <<>>
    /\ decided = <<>>
    /\ pc = "rewrite"
    /\ graph = <<>>
    /\ graph0 = <<>>
    /\ cfg = "rewriter"
    /\ log = <<>>
    /\ nodes_to_add = <<>>
    /\ nodes_to_remove = <<>>
    /\ node_name_to_graph_name = <<>>
    /\ prune_graph = FALSE
    /\ num_heads = 0
    /\ hidden_size = 0
    /\ num_heads_warning = TRUE
    /\ hidden_size_warning = TRUE
    /\ todo = <<>>
    /\ last = <<>>
    /\ fuse_layernorm = FALSE
    /\ opset_import = <<>>
    /\ modified = FALSE
    /\ available_suffix = 0
    /\ idx = 0
    /\ applied = <<>>
    /\ saved = <<>>
    /\ ret = "none"

InitRewriter == InitOn(Files)

InitStatements == InitOn(StatementFiles)

RewriterFrame == UNCHANGED <<graph, graph0, cfg, log, qnnVars, fusionVars, lines, operators>>

Raise ==
    /\ pc' = "error"
    /\ UNCHANGED <<version_map, line_offset, file_to_write, decided>>

\* lines 187-198: a class declaration registers its versions and is copied
ClassStatement ==
    /\ pc = "rewrite"
    /\ line_offset <= Len(lines)
    /\ StartsWith(StripSpace(Text(lines[line_offset])), <<"class ONNX_OPERATOR">>)
    /\ LET end == EndOffset(lines, line_offset, ClassEnd)
           call == process_lines(lines, line_offset, end, ClassEnd)
       IN  IF end = 0 THEN Raise
           ELSE IF ~call.ok THEN Raise
           ELSE /\ version_map' =
                      (IF call.found
                       THEN fill_version_map(version_map, call.op_type, call.opset_from,
                                             call.opset_to, call.domain)
                       ELSE version_map)
                /\ file_to_write' = file_to_write
                                      \o WriteStatement(lines, line_offset, end, FALSE)
                /\ line_offset' = end + 1
                /\ UNCHANGED <<pc, decided>>
    /\ RewriterFrame

\* lines 200-215: a registration is copied, or commented out if need_comment
\* says so
BuildStatement ==
    /\ pc = "rewrite"
    /\ line_offset <= Len(lines)
    /\ ~StartsWith(StripSpace(Text(lines[line_offset])), <<"class ONNX_OPERATOR">>)
    /\ StartsWith(StripSpace(Text(lines[line_offset])), <<"BuildKernelCreateInfo<ONNX">>)
    /\ LET end == EndOffset(lines, line_offset, BuildEnd)
           call == process_lines(lines, line_offset, end, BuildEnd)
           answer == need_comment(operators, version_map, call.op_type, call.opset_from,
                                  call.opset_to, call.domain)
       IN  IF end = 0 THEN Raise
           ELSE IF ~call.ok THEN Raise
           ELSE IF ~call.found
           THEN /\ file_to_write' = file_to_write
                                      \o WriteStatement(lines, line_offset, end, FALSE)
                /\ line_offset' = end + 1
                /\ UNCHANGED <<pc, version_map, decided>>
           ELSE IF ~answer.ok THEN Raise
           ELSE /\ file_to_write' = file_to_write
                                      \o WriteStatement(lines, line_offset, end,
                                                        answer.disabled)
                /\ decided' = Append(decided,
                                  [op_type |-> call.op_type, domain |-> call.domain,
                                   opset_from |-> call.opset_from,
                                   opset_to |-> call.opset_to,
                                   disabled |-> answer.disabled,
                                   first |-> line_offset, end |-> end])
                /\ line_offset' = end + 1
                /\ UNCHANGED <<pc, version_map>>
    /\ RewriterFrame

\* lines 217-219: any other line is copied
CopyLine ==
    /\ pc = "rewrite"
    /\ line_offset <= Len(lines)
    /\ ~StartsWith(StripSpace(Text(lines[line_offset])), <<"class ONNX_OPERATOR">>)
    /\ ~StartsWith(StripSpace(Text(lines[line_offset])), <<"BuildKernelCreateInfo<ONNX">>)
    /\ file_to_write' = Append(file_to_write, [line |-> lines[line_offset], commented |-> FALSE])
    /\ line_offset' = line_offset + 1
    /\ UNCHANGED <<pc, version_map, decided>>
    /\ RewriterFrame

\* line 182: the loop ends
EndOfFile ==
    /\ pc = "rewrite"
    /\ ~(line_offset <= Len(lines))
    /\ pc' = "done"
    /\ UNCHANGED <<version_map, line_offset, file_to_write, decided>>
    /\ RewriterFrame

NextRewriter ==
    \/ ClassStatement
    \/ BuildStatement
    \/ CopyLine
    \/ EndOfFile

SpecRewriter == InitRewriter /\ [][NextRewriter]_vars

SpecStatements == InitStatements /\ [][NextRewriter]_vars

(***************************************************************************)
(* Claims about rewrite_cpu_provider.                                      *)
(***************************************************************************)
IsClass(l) == StartsWith(StripSpace(Text(l)), <<"class ONNX_OPERATOR">>)

IsBuild(l) == ~IsClass(l) /\ StartsWith(StripSpace(Text(l)), <<"BuildKernelCreateInfo<ONNX">>)

\* every class declaration of the file precedes every registration
DeclarationsFirst ==
    \A i, j \in 1..Len(lines) : IsClass(lines[i]) /\ IsBuild(lines[j]) => i < j

\* the registration was taken for an op referred to with an opset in its range
ReferredInOwnRange(d) ==
    \E o \in Referred(operators, d.op_type, d.domain) : d.opset_from <= o /\ o <= d.opset_to

\* the registration is of the latest version declared for its op and domain
IsLatestDeclared(d) ==
    /\ <<d.op_type, d.domain>> \in DOMAIN version_map
    /\ d.opset_to = Max(Range(version_map[<<d.op_type, d.domain>>]))

ReferredFrom(d) ==
    \E o \in Referred(operators, d.op_type, d.domain) : d.opset_from <= o

\* the versions of every op and domain were declared in ascending order
DeclaredAscending ==
    \A k \in DOMAIN version_map :
        \A i, j \in 1..Len(version_map[k]) :
            i < j => version_map[k][i] < version_map[k][j]

\* C16: with the class declarations in any order before the registrations, a
\* registration of an op referred to with an opset inside the registration's
\* own version range is never commented out, and the registration of the
\* latest declared version is kept for every referred opset from its
\* opset_from on.
C16_UsedRegistrationsKept ==
    DeclarationsFirst =>
        \A i \in 1..Len(decided) :
            /\ ReferredInOwnRange(decided[i]) => ~decided[i].disabled
            /\ IsLatestDeclared(decided[i]) /\ ReferredFrom(decided[i])
                   => ~decided[i].disabled

\* C16, for declarations in ascending order of version: used registrations
\* are kept.
C16_UsedRegistrationsKeptIfAscending ==
    DeclarationsFirst /\ DeclaredAscending =>
        \A i \in 1..Len(decided) :
            /\ ReferredInOwnRange(decided[i]) => ~decided[i].disabled
            /\ IsLatestDeclared(decided[i]) /\ ReferredFrom(decided[i])
                   => ~decided[i].disabled

\* the mark that ends the statement starting on line i
EndMark(i) == IF IsClass(lines[i]) THEN ClassEnd ELSE BuildEnd

\* the offsets the main loop takes from offset i on, if nothing is raised
RECURSIVE Visited(_)
Visited(i) ==
    IF i > Len(lines) THEN {}
    ELSE IF IsClass(lines[i]) \/ IsBuild(lines[i])
    THEN (IF EndOffset(lines, i, EndMark(i)) = 0 THEN {i}
          ELSE {i} \cup Visited(EndOffset(lines, i, EndMark(i)) + 1))
    ELSE {i} \cup Visited(i + 1)

\* the statement starting on line i ends with its mark
Ends(i) == (IsClass(lines[i]) \/ IsBuild(lines[i])) => EndOffset(lines, i, EndMark(i)) # 0

StatementCall(i) ==
    process_lines(lines, i, EndOffset(lines, i, EndMark(i)), EndMark(i))

\* the statement starting on line j is a class declaration of the op and
\* domain
IsDeclaration(j, op_type, domain) ==
    /\ IsClass(lines[j])
    /\ Ends(j)
    /\ StatementCall(j).ok
    /\ StatementCall(j).found
    /\ StatementCall(j).op_type = op_type
    /\ StatementCall(j).domain = domain

\* the class declaration on line j puts the version opset on the list of the
\* op and domain: it is its opset_from, or it is its opset_to and either
\* opset_from < opset_to or an earlier declaration of the op and domain has
\* started the list
Declares(j, op_type, domain, opset) ==
    /\ IsDeclaration(j, op_type, domain)
    /\ \/ StatementCall(j).opset_from = opset
       \/ /\ StatementCall(j).opset_to = opset
          /\ \/ StatementCall(j).opset_from < StatementCall(j).opset_to
             \/ \E h \in Visited(1) : h < j /\ IsDeclaration(h, op_type, domain)

\* the statement starting on line i can be processed: it ends, its macro has
\* its arguments with integer versions, and a registration of a referred op
\* follows a class declaration that puts its opset_to on the list of its op
\* and domain
Processable(i) ==
    LET call == StatementCall(i)
    IN  /\ Ends(i)
        /\ IsClass(lines[i]) \/ IsBuild(lines[i]) => call.ok
        /\ IsBuild(lines[i]) /\ call.found
             /\ Referred(operators, call.op_type, call.domain) # {}
           => \E j \in Visited(1) :
                  /\ j < i
                  /\ Declares(j, call.op_type, call.domain, call.opset_to)

\* every class and registration statement of the file ends with its mark
StatementsEnd == \A i \in Visited(1) : Ends(i)

AllProcessable == \A i \in Visited(1) : Processable(i)

\* the lines of a registration statement taken so far
BuildStatementLines ==
    UNION {decided[i].first..decided[i].end : i \in 1..Len(decided)}

\* what was written so far are the first lines of the file, in order, each as
\* it was or commented out; only lines of registrations are commented out, the
\* lines of one registration all or none; nothing was raised, and at the end
\* every line was written
LineByLine ==
    /\ pc # "error"
    /\ Len(file_to_write) = line_offset - 1
    /\ line_offset <= Len(lines) + 1
    /\ \A j \in 1..Len(file_to_write) :
          /\ file_to_write[j].line = lines[j]
          /\ file_to_write[j].commented => j \in BuildStatementLines
    /\ \A i \in 1..Len(decided) :
          \A j, k \in decided[i].first..decided[i].end :
              file_to_write[j].commented = file_to_write[k].commented
    /\ pc = "done" => Len(file_to_write) = Len(lines)

\* a step of the main loop moves line_offset forward, by the lines of one
\* statement and not past the end of the file, or finds it past the last line
\* and ends the loop
Advances ==
    \/ pc' = "rewrite" /\ line_offset < line_offset' /\ line_offset' <= Len(lines) + 1
    \/ pc' = "done" /\ line_offset = Len(lines) + 1 /\ line_offset' = line_offset

\* a step raises: nothing more is written, and lines are left to write
Raises ==
    /\ pc' = "error"
    /\ file_to_write' = file_to_write
    /\ line_offset' = line_offset
    /\ Len(file_to_write) < Len(lines)

\* a step of the loop, which line_offset <= Len(lines) + 1 lets advance at
\* most Len(lines) + 1 times: it advances, and what is written after it are
\* the first lines of the file; or it raises.  The loop ends with the file
\* written on the files that can be processed, and raises on the others.
RewriteStep ==
    /\ LineByLine
    /\ pc = "rewrite" /\ (Advances \/ Raises)
    /\ pc' # "error" => LineByLine'
    /\ pc' = "done" => AllProcessable
    /\ pc' = "error" => ~AllProcessable

\* C17 as stated: for any file whose class statements end with ');' and whose
\* registration statements end with ')>,', the loop ends without an error and
\* writes the lines of the file in order, each as it was or commented out, only
\* lines of registrations commented out and those of one statement together.
C17_LineByLineIfStatementsEnd == StatementsEnd => LineByLine

\* C17: for any file whose statements end with their marks, whose macros have
\* their arguments with integer versions and whose registrations of referred
\* ops follow a class declaration that puts their opset_to on the version list
\* of the op and domain, the loop terminates (a step can always be taken and
\* moves line_offset forward until it ends the loop) without an error and
\* writes the lines of the file in order, each as it was or commented out, only
\* lines of registrations commented out and those of one statement together;
\* on any other file a step raises before the output is complete.
C17_LineByLineIffProcessable == [][RewriteStep]_vars

\* C17: a file with a class declaration was rewritten to its end and a
\* registration on two lines commented out on both
C17_Witness ==
    /\ AllProcessable
    /\ pc = "done"
    /\ \E j \in 1..Len(lines) : IsClass(lines[j])
    /\ \E i \in 1..Len(decided) :
          /\ decided[i].end > decided[i].first
          /\ decided[i].disabled
          /\ file_to_write[decided[i].first].commented
          /\ file_to_write[decided[i].end].commented

\* C17: a class declaration on two lines was read and copied
C17_WitnessTwoLineClass ==
    /\ AllProcessable
    /\ pc = "done"
    /\ Len(lines) = 3
    /\ lines[1] = ClassOpen(SplitKernel)
    /\ lines[2] = ClassClose(SplitKernel)
    /\ lines[3] = BuildLine(SplitKernel)
    /\ version_map = (<<<<"A", "b", "s">>, Onnx>> :> <<1>>)
    /\ operators # {}
    /\ Len(decided) = 1
    /\ ~file_to_write[3].commented

\* C17: a registration of a referred op whose declaration names the higher
\* version first and starts the list does not find its opset_to there
C17_WitnessHigherFirst ==
    /\ ~AllProcessable
    /\ pc = "error"
    /\ Len(lines) = 2
    /\ lines[1] = ClassLine(HigherFirstKernel)
    /\ lines[2] = BuildLine(HigherFirstKernel)
    /\ version_map = (<<<<"A", "b", "s">>, Ml>> :> <<3>>)
    /\ Len(file_to_write) = 1

\* C17: the comma of the mark ')>,' on a line inside a class declaration
\* separates two arguments
C17_WitnessMarkInside ==
    /\ pc = "done"
    /\ Len(lines) = 3
    /\ lines[1] = ClassOpen(SplitKernel)
    /\ lines[2] = BuildClose(SplitKernel)
    /\ lines[3] = ClassClose(SplitKernel)
    /\ version_map = (<<<<"A", "b", "s">>, <<"A", "b", "s", ")", ">">>>> :> <<1>>)

====
